---- MODULE Spec2Model ----
(***************************************************************************)
(* Model of the Monkshu backend API gateway core:                          *)
(*   backend/server/lib/apiregistry.js            (the API registry)       *)
(*   backend/server/lib/apiregistry_extensions/jwttokenmanager.js          *)
(*                                                 (the JWT token manager) *)
(*   backend/server/lib/app.js                    (the application list)   *)
(*                                                                         *)
(* The specifications share the variables.  SpecRegistry, SpecAdmin and    *)
(* SpecChains drive the registry (requests, administration, chain order).  *)
(* The token manager is driven by SpecTokens (the life of issued tokens),  *)
(* SpecAccess (the access decision, entry by header), SpecForeign (tokens  *)
(* registered through addToken), SpecListeners and SpecIssue (listeners,   *)
(* sweeps and the tokens injectResponseHeaders issues) and SpecLifecycle   *)
(* (which keeps the history of the tokens that died).  SpecStages follows  *)
(* the stages of one chain call, SpecOverlap and SpecPersist the addAPI    *)
(* and deleteAPI calls that wait for the registry file, SpecWorkers and    *)
(* SpecRaces two worker processes on the shared table of tokens, SpecBoot  *)
(* the initSync of both modules from a process that has not run it,        *)
(* SpecSweep, the one with fairness, the sweep timer in the long run,      *)
(* SpecFrame every reason a validation fails for, and SpecHeader the       *)
(* exported checkHeaderToken.                                              *)
(***************************************************************************)
EXTENDS Integers, Sequences, FiniteSets, TLC

VARIABLES
    apireg,         \* CLUSTER_MEMORY[API_REG_DISTM_KEY]: endpoint path -> entry
    regfile,        \* contents of CONSTANTS.API_REGISTRY on disk: path -> entry
    customCheckers, \* keys of APIREGISTRY.ENV.CUSTOM_SECURITY_CHECKERS
    decoders, encoders, headermanagers, securitycheckers,   \* the four loaded chains
    chainManifests, \* history: the manifests the four chains were loaded from
    inflight,       \* addAPI/deleteAPI calls suspended at an await
    last,           \* the registry call that returned last, with what it returned
    now,            \* Date.now()
    activeTokens,   \* CLUSTER_MEMORY[API_TOKEN_CLUSTERMEM_KEY]: token -> lastAccess
    conf,           \* the token manager's conf object
    gcDue,          \* when the setInterval timer of _cleanTokens fires next
    jtiNext,        \* number of tokens createSignedJWTToken has made, plus one
    issued,         \* history: the tokens createSignedJWTToken has returned
    touched,        \* history: untampered issued token -> time it was issued or last validated
    tampered,       \* history: issued tokens that addToken or releaseToken was called on
    dead,           \* history (SpecLifecycle): tokens rejected as expired, evicted, or released while live
    listeners,      \* _jwttokenListeners, in registration order
    tlast,          \* the token manager call that returned last, with what it returned
    stages,         \* the chain call in progress: which stages have started and finished
    workers,        \* per worker process: its token manager call between a get and a set of the store
    boot            \* what initSync of the registry and of the token manager have done so far

regVars == <<apireg, regfile, customCheckers, decoders, encoders, headermanagers,
             securitycheckers, chainManifests, inflight, last>>
tokVars == <<now, activeTokens, conf, gcDue, jtiNext, issued, touched, tampered, dead, listeners, tlast>>
auxVars == <<stages, workers, boot>>
vars == <<regVars, tokVars, auxVars>>

----------------------------------------------------------------------------
(* Bounds *)

MaxInFlight == 1
MaxTime == 4
MaxTokens == 1
MaxLive == 2
MaxListeners == 2

----------------------------------------------------------------------------
(* File-system paths are sequences of segments; "/" as first segment makes  *)
(* the path absolute.                                                       *)

ROOTDIR == <<"/", "server">>
CWD == <<"/", "cwd">>
APPROOT == <<"/", "apps", "app1">>

IsAbsolute(p) == Len(p) > 0 /\ p[1] = "/"

\* `${root}/${target}`
JoinRoot(root, target) == root \o target

\* path.resolve(p): an absolute path stays, a relative one is resolved against the cwd
PathResolve(p) == IF IsAbsolute(p) THEN p ELSE CWD \o p

\* fs.existsSync: the targets that exist as they are written
FsExisting == { <<"/", "abs", "api3.js">>, <<"/", "server", "api1.js">> }
ExistsSync(p) == p \in FsExisting

----------------------------------------------------------------------------
(* Registry entries.  An entry is the string "target?query"; the model      *)
(* keeps the part before "?" as target and the query's customSecurity       *)
(* directive as the sequence of the names it lists.                         *)

Paths == {"/p1", "/p2"}
CustomNames == {"cs1", "cs2"}

E1 == [target |-> <<"api1.js">>, customSecurity |-> <<>>]
E2 == [target |-> <<"api2.js">>, customSecurity |-> <<"cs1">>]
E3 == [target |-> <<"/", "abs", "api3.js">>, customSecurity |-> <<"cs1", "cs2">>]
FileEntries == {E1, E2, E3}
NoEntry == [target |-> <<>>, customSecurity |-> <<>>]

\* the URLs of the requests: new URL(url).pathname is the lookup key
Urls == [pathname : Paths, search : {"?x=1"}]
EndPoint(url) == url.pathname

\* _getAPIRegEntryAsURL(entry).rawpathname
RawPathname(entry) == entry.target

\* apireg[key] = existsSync(target) ? apireg[key] : `${root}/${apireg[key]}`
Rooted(entry, root) ==
    IF ExistsSync(entry.target) THEN entry
    ELSE [entry EXCEPT !.target = JoinRoot(root, entry.target)]

\* {...a, ...b}
Merge(a, b) == [k \in (DOMAIN a) \cup (DOMAIN b) |-> IF k \in DOMAIN b THEN b[k] ELSE a[k]]

\* app.getApps(): the list of {app: root} objects
AppNames == {"app1"}
getApps == << [name |-> "app1", root |-> APPROOT] >>

\* the table initSync leaves in the shared store, from the core registry and
\* the application's overlay registry (an empty overlay when it has no file)
InitSyncTable(coreFile, appFile) ==
    LET core == [k \in DOMAIN coreFile |-> Rooted(coreFile[k], ROOTDIR)]
        app1 == [k \in DOMAIN appFile |-> Rooted(appFile[k], APPROOT)]
    IN Merge(core, app1)

----------------------------------------------------------------------------
(* The extension chains.  A manifest lists {extension name: priority} in    *)
(* key order; a chain is the sequence of the loaded modules, each known by  *)
(* its __org_monkshu_apiregistry_conf_modulename.                           *)

\* sortedConfObjects.push(...) over every key of every manifest, in order
RECURSIVE FlatConf(_)
FlatConf(manifests) ==
    IF manifests = <<>> THEN <<>> ELSE Head(manifests) \o FlatConf(Tail(manifests))

\* Array.prototype.sort with the priority comparator: stable, ascending
\* mutant: an element goes before the elements of its own priority
RECURSIVE InsertSortedBeforeEqual(_, _)
InsertSortedBeforeEqual(sorted, c) ==
    IF sorted = <<>> THEN <<c>>
    ELSE IF c.priority <= Head(sorted).priority THEN <<c>> \o sorted
    ELSE <<Head(sorted)>> \o InsertSortedBeforeEqual(Tail(sorted), c)

RECURSIVE InsertSorted(_, _)
InsertSorted(sorted, c) ==
    IF sorted = <<>> THEN <<c>>
    ELSE IF c.priority < Head(sorted).priority THEN <<c>> \o sorted
    ELSE <<Head(sorted)>> \o InsertSorted(Tail(sorted), c)

RECURSIVE SortByPriority(_)
SortByPriority(confs) ==
    IF confs = <<>> THEN <<>>
    ELSE InsertSorted(SortByPriority(SubSeq(confs, 1, Len(confs) - 1)), confs[Len(confs)])

_loadSortedConfOjbects(manifests) ==
    LET sorted == SortByPriority(FlatConf(manifests))
    IN [i \in 1..Len(sorted) |-> sorted[i].name]

DecoderManifests == { << <<[name |-> "d1", priority |-> 20], [name |-> "d2", priority |-> 10]>> >> }
EncoderManifests == { << <<[name |-> "e1", priority |-> 10]>>, <<[name |-> "e2", priority |-> 5]>> >> }
HeaderManifests == { << <<[name |-> "h1", priority |-> 10], [name |-> "h2", priority |-> 20]>> >> }
SecurityManifests ==
    { << <<[name |-> "sc1", priority |-> 20], [name |-> "sc2", priority |-> 10]>> >>,
      << <<[name |-> "sc1", priority |-> 10]>> >> }

\* manifests of one chain as they may be on disk: the core manifest with up to
\* two extensions in either key order, then the application's with one, if
\* the application has the file
Priorities == {10, 20, 30}
CoreManifests ==
    { << >> }
    \cup { << [name |-> n, priority |-> p] >> : n \in {"x1", "x2"}, p \in Priorities }
    \cup { << [name |-> n[1], priority |-> p], [name |-> n[2], priority |-> q] >> :
              n \in { <<"x1", "x2">>, <<"x2", "x1">> }, p \in Priorities, q \in Priorities }
AppManifests == { << [name |-> "x3", priority |-> p] >> : p \in Priorities }
ChainSources ==
    { <<c>> : c \in CoreManifests } \cup { <<c, a>> : c \in CoreManifests, a \in AppManifests }

----------------------------------------------------------------------------
(* What a registry call leaves behind for its caller.                       *)

\* the reason object a caller passes to checkSecurity: {}
CallerReason == [reason |-> "", code |-> 0, failedOn |-> ""]

LastBase ==
    [op |-> "initSync", path |-> "", app |-> "", entry |-> NoEntry, ret |-> "undefined",
     retPath |-> <<>>, retList |-> {}, retData |-> <<>>, invoked |-> <<>>,
     chain |-> <<>>, outcomes |-> <<>>, reasonOut |-> CallerReason,
     headersIn |-> {}, headersOut |-> {}]

\* apireg[endPoint] is truthy: the table has an entry for the path
HasEntry(reg, endPoint) == endPoint \in DOMAIN reg

----------------------------------------------------------------------------
(* getAPI, getAPIConf, listAPIs *)

getAPI(reg, url) ==
    IF HasEntry(reg, EndPoint(url))
    THEN [ret |-> "value", retPath |-> PathResolve(RawPathname(reg[EndPoint(url)]))]
    ELSE [ret |-> "undefined", retPath |-> <<>>]

listAPIs(reg) == DOMAIN reg

GetAPI(url) ==
    /\ last' = [LastBase EXCEPT !.op = "getAPI", !.path = EndPoint(url),
                                !.ret = getAPI(apireg, url).ret,
                                !.retPath = getAPI(apireg, url).retPath]
    /\ UNCHANGED <<apireg, regfile, customCheckers, decoders, encoders, headermanagers,
                   securitycheckers, chainManifests, inflight>>
    /\ UNCHANGED <<tokVars, auxVars>>

ListAPIs ==
    /\ last' = [LastBase EXCEPT !.op = "listAPIs", !.ret = "value", !.retList = listAPIs(apireg)]
    /\ UNCHANGED <<apireg, regfile, customCheckers, decoders, encoders, headermanagers,
                   securitycheckers, chainManifests, inflight>>
    /\ UNCHANGED <<tokVars, auxVars>>

----------------------------------------------------------------------------
(* decodeIncomingData, encodeResponse, injectResponseHeaders.  A decoder or *)
(* encoder returns its input with its own mark appended; a header manager   *)
(* decides by itself whether it sets a header.                              *)

RECURSIVE Thread(_, _)
Thread(chain, data) ==
    IF chain = <<>> THEN data ELSE Thread(Tail(chain), Append(data, Head(chain)))

\* mutant: the decoders run without the lookup of the entry
decodeIncomingDataUnguarded(reg, chain, url, data) ==
    [ret |-> "value", retData |-> Thread(chain, data), invoked |-> chain]

decodeIncomingData(reg, chain, url, data) ==
    IF ~HasEntry(reg, EndPoint(url))
    THEN [ret |-> "false", retData |-> <<>>, invoked |-> <<>>]
    ELSE [ret |-> "value", retData |-> Thread(chain, data), invoked |-> chain]

encodeResponse(reg, chain, url, respObj) ==
    IF ~HasEntry(reg, EndPoint(url))
    THEN [ret |-> "false", retData |-> <<>>, invoked |-> <<>>]
    ELSE [ret |-> "value", retData |-> Thread(chain, respObj), invoked |-> chain]

injectResponseHeaders(reg, chain, url, adds, responseHeaders) ==
    IF ~HasEntry(reg, EndPoint(url))
    THEN [invoked |-> <<>>, headersOut |-> responseHeaders]
    ELSE [invoked |-> chain,
          headersOut |-> responseHeaders \cup {chain[i] : i \in {j \in 1..Len(chain) : adds[j]}}]

Payloads == { <<"body">> }
CallerHeaders == { {}, {"content-type"} }

DecodeIncomingData(url, data) ==
    LET r == decodeIncomingData(apireg, decoders, url, data) IN
    /\ last' = [LastBase EXCEPT !.op = "decodeIncomingData", !.path = EndPoint(url),
                                !.ret = r.ret, !.retData = r.retData, !.invoked = r.invoked]
    /\ UNCHANGED <<apireg, regfile, customCheckers, decoders, encoders, headermanagers,
                   securitycheckers, chainManifests, inflight>>
    /\ UNCHANGED <<tokVars, auxVars>>

EncodeResponse(url, respObj) ==
    LET r == encodeResponse(apireg, encoders, url, respObj) IN
    /\ last' = [LastBase EXCEPT !.op = "encodeResponse", !.path = EndPoint(url),
                                !.ret = r.ret, !.retData = r.retData, !.invoked = r.invoked]
    /\ UNCHANGED <<apireg, regfile, customCheckers, decoders, encoders, headermanagers,
                   securitycheckers, chainManifests, inflight>>
    /\ UNCHANGED <<tokVars, auxVars>>

InjectResponseHeaders(url, adds, responseHeaders) ==
    LET r == injectResponseHeaders(apireg, headermanagers, url, adds, responseHeaders) IN
    /\ last' = [LastBase EXCEPT !.op = "injectResponseHeaders", !.path = EndPoint(url),
                                !.invoked = r.invoked, !.headersIn = responseHeaders,
                                !.headersOut = r.headersOut]
    /\ UNCHANGED <<apireg, regfile, customCheckers, decoders, encoders, headermanagers,
                   securitycheckers, chainManifests, inflight>>
    /\ UNCHANGED <<tokVars, auxVars>>

----------------------------------------------------------------------------
(* checkSecurity.  Each checker of the chain, when invoked, passes, rejects *)
(* (setting the reason object) or throws: behaviour[i] says which.          *)

Behaviours == {"pass", "reject", "throw"}

\* [...securitycheckers] followed by CUSTOM_SECURITY_CHECKERS[name] for every
\* name of the customSecurity directive: undefined where no such key exists
allSecurityCheckers(core, custom, entry) ==
    [i \in 1..Len(core) |-> [name |-> core[i], defined |-> TRUE]]
    \o [i \in 1..Len(entry.customSecurity) |->
            [name |-> entry.customSecurity[i], defined |-> entry.customSecurity[i] \in custom]]

\* mutant: a rejection is noted and the loop goes on to the end of the chain
RECURSIVE RunCheckersToTheEnd(_, _, _, _, _)
RunCheckersToTheEnd(chain, behaviour, i, invoked, reason) ==
    IF i > Len(chain)
    THEN [ret |-> IF reason.failedOn = "" THEN "true" ELSE "false",
          invoked |-> invoked, reasonOut |-> reason]
    ELSE IF ~chain[i].defined THEN RunCheckersToTheEnd(chain, behaviour, i + 1, invoked, reason)
    ELSE IF behaviour[i] = "throw"
         THEN [ret |-> "threw", invoked |-> Append(invoked, chain[i].name), reasonOut |-> reason]
    ELSE IF behaviour[i] = "reject"
         THEN RunCheckersToTheEnd(chain, behaviour, i + 1, Append(invoked, chain[i].name),
                  [reason |-> "rejected by checker", code |-> 403, failedOn |-> chain[i].name])
    ELSE RunCheckersToTheEnd(chain, behaviour, i + 1, Append(invoked, chain[i].name), reason)

\* the loop of lines 111-115 from position i on, with the reason object so far
RECURSIVE RunCheckers(_, _, _, _, _)
RunCheckers(chain, behaviour, i, invoked, reason) ==
    IF i > Len(chain) THEN [ret |-> "true", invoked |-> invoked, reasonOut |-> reason]
    ELSE IF ~chain[i].defined THEN RunCheckers(chain, behaviour, i + 1, invoked, reason)
    ELSE IF behaviour[i] = "throw"
         THEN [ret |-> "threw", invoked |-> Append(invoked, chain[i].name), reasonOut |-> reason]
    ELSE IF behaviour[i] = "reject"
         THEN [ret |-> "false", invoked |-> Append(invoked, chain[i].name),
               reasonOut |-> [reason |-> "rejected by checker", code |-> 403,
                              failedOn |-> chain[i].name]]
    ELSE RunCheckers(chain, behaviour, i + 1, Append(invoked, chain[i].name), reason)

\* line 105 assigns a new object to the parameter (reasonLocal): the caller's object
\* (reasonOut) stays as it was
checkSecurity(reg, core, custom, url, behaviour, reason) ==
    IF ~HasEntry(reg, EndPoint(url))
    THEN [ret |-> "false", invoked |-> <<>>, reasonOut |-> reason, chain |-> <<>>,
          reasonLocal |-> [reason |-> "API endpoint missing", code |-> 403, failedOn |-> ""]]
    ELSE LET chain == allSecurityCheckers(core, custom, reg[EndPoint(url)])
             r == RunCheckers(chain, behaviour, 1, <<>>, reason)
         IN [ret |-> r.ret, invoked |-> r.invoked, reasonOut |-> r.reasonOut,
             chain |-> [i \in 1..Len(chain) |-> chain[i].name], reasonLocal |-> r.reasonOut]

\* the length of the chain checkSecurity builds for the URL
ChainLen(url) ==
    IF HasEntry(apireg, EndPoint(url))
    THEN Len(allSecurityCheckers(securitycheckers, customCheckers, apireg[EndPoint(url)]))
    ELSE 0

CheckSecurity(url, behaviour) ==
    LET r == checkSecurity(apireg, securitycheckers, customCheckers, url, behaviour, CallerReason) IN
    /\ last' = [LastBase EXCEPT !.op = "checkSecurity", !.path = EndPoint(url),
                                !.ret = r.ret, !.invoked = r.invoked, !.chain = r.chain,
                                !.outcomes = behaviour, !.reasonOut = r.reasonOut]
    /\ UNCHANGED <<apireg, regfile, customCheckers, decoders, encoders, headermanagers,
                   securitycheckers, chainManifests, inflight>>
    /\ UNCHANGED <<tokVars, auxVars>>

AddCustomSecurityChecker(name) ==
    /\ customCheckers' = customCheckers \cup {name}
    /\ last' = [LastBase EXCEPT !.op = "addCustomSecurityChecker", !.path = name]
    /\ UNCHANGED <<apireg, regfile, decoders, encoders, headermanagers, securitycheckers, chainManifests, inflight>>
    /\ UNCHANGED <<tokVars, auxVars>>

RemoveCustomSecurityChecker(name) ==
    /\ customCheckers' = customCheckers \ {name}
    /\ last' = [LastBase EXCEPT !.op = "removeCustomSecurityChecker", !.path = name]
    /\ UNCHANGED <<apireg, regfile, decoders, encoders, headermanagers, securitycheckers, chainManifests, inflight>>
    /\ UNCHANGED <<tokVars, auxVars>>

----------------------------------------------------------------------------
(* addAPI (alias editAPI) and deleteAPI.  The third parameter is named app  *)
(* and hides the app.js module inside the function, so app.getApps() is a   *)
(* call on the argument: a string or undefined has no getApps and the call  *)
(* throws before anything is changed; only an object that has a getApps     *)
(* method gets past line 139 (150), and apps[app] is then undefined.        *)

\* the entry descriptors addAPI is called with
AdminEntries == {E2, E3}

Undefined == "undefined"
AppModule == "[object Object]"
AppArgs == AppNames \cup {Undefined, AppModule}

\* typeof app.getApps == "function"
HasGetApps(app) == app = AppModule

\* addAPI as it would be if it left the table alone until the file is written
addAPISyncFileFirst(reg, path, apiregentry, app) ==
    [threw |-> ~HasGetApps(app), reg |-> reg]

\* lines 139-142 (150-153), the part before the first await
addAPISync(reg, path, apiregentry, app) ==
    IF ~HasGetApps(app) THEN [threw |-> TRUE, reg |-> reg]
    ELSE [threw |-> FALSE, reg |-> Merge(reg, [k \in {path} |-> apiregentry])]

deleteAPISync(reg, path, app) ==
    IF ~HasGetApps(app) THEN [threw |-> TRUE, reg |-> reg]
    ELSE [threw |-> FALSE, reg |-> [k \in (DOMAIN reg) \ {path} |-> reg[k]]]

\* lines 138-143: the call up to its first await
AddAPICall(op, path, apiregentry, app) ==
    LET r == addAPISync(apireg, path, apiregentry, app) IN
    /\ apireg' = r.reg
    /\ inflight' = IF r.threw THEN inflight
                   ELSE Append(inflight, [op |-> op, path |-> path, entry |-> apiregentry,
                                          stage |-> "readFile", regFileObj |-> << >>])
    /\ last' = [LastBase EXCEPT !.op = op, !.path = path, !.entry = apiregentry, !.app = app,
                                !.ret = IF r.threw THEN "rejected" ELSE "pending"]
    /\ UNCHANGED <<regfile, customCheckers, decoders, encoders, headermanagers, securitycheckers, chainManifests>>
    /\ UNCHANGED <<tokVars, auxVars>>

\* lines 149-154: the call up to its first await
DeleteAPICall(path, app) ==
    LET r == deleteAPISync(apireg, path, app) IN
    /\ apireg' = r.reg
    /\ inflight' = IF r.threw THEN inflight
                   ELSE Append(inflight, [op |-> "deleteAPI", path |-> path, entry |-> NoEntry,
                                          stage |-> "readFile", regFileObj |-> << >>])
    /\ last' = [LastBase EXCEPT !.op = "deleteAPI", !.path = path, !.app = app,
                                !.ret = IF r.threw THEN "rejected" ELSE "pending"]
    /\ UNCHANGED <<regfile, customCheckers, decoders, encoders, headermanagers, securitycheckers, chainManifests>>
    /\ UNCHANGED <<tokVars, auxVars>>

\* a call that comes while at most MaxInFlight - 1 others are suspended
AddAPI(op, path, apiregentry, app) ==
    /\ addAPISync(apireg, path, apiregentry, app).threw \/ Len(inflight) < MaxInFlight
    /\ AddAPICall(op, path, apiregentry, app)

DeleteAPI(path, app) ==
    /\ deleteAPISync(apireg, path, app).threw \/ Len(inflight) < MaxInFlight
    /\ DeleteAPICall(path, app)

RemoveAt(seq, i) == SubSeq(seq, 1, i - 1) \o SubSeq(seq, i + 1, Len(seq))

\* await fs.promises.readFile(regFile) settles: lines 143-144 (154-155) up to writeFile
ReadFileDone(i, ok) ==
    /\ i \in 1..Len(inflight)
    /\ inflight[i].stage = "readFile"
    /\ LET c == inflight[i]
           obj == IF c.op = "deleteAPI" THEN [k \in (DOMAIN regfile) \ {c.path} |-> regfile[k]]
                  ELSE Merge(regfile, [k \in {c.path} |-> c.entry])
       IN IF ok
          THEN /\ inflight' = [inflight EXCEPT ![i] = [c EXCEPT !.stage = "writeFile", !.regFileObj = obj]]
               /\ last' = last
          ELSE /\ inflight' = RemoveAt(inflight, i)
               /\ last' = [LastBase EXCEPT !.op = c.op, !.path = c.path, !.entry = c.entry,
                                           !.app = AppModule, !.ret = "rejected"]
    /\ UNCHANGED <<apireg, regfile, customCheckers, decoders, encoders, headermanagers, securitycheckers, chainManifests>>
    /\ UNCHANGED <<tokVars, auxVars>>

\* await fs.promises.writeFile(regFile, ...) settles
WriteFileDone(i, ok) ==
    /\ i \in 1..Len(inflight)
    /\ inflight[i].stage = "writeFile"
    /\ LET c == inflight[i]
       IN /\ regfile' = IF ok THEN c.regFileObj ELSE regfile
          /\ inflight' = RemoveAt(inflight, i)
          /\ last' = [LastBase EXCEPT !.op = c.op, !.path = c.path, !.entry = c.entry,
                                      !.app = AppModule,
                                      !.ret = IF ok THEN "resolved" ELSE "rejected"]
    /\ UNCHANGED <<apireg, customCheckers, decoders, encoders, headermanagers, securitycheckers, chainManifests>>
    /\ UNCHANGED <<tokVars, auxVars>>

----------------------------------------------------------------------------
(* Tokens.  A token is the string header.claims.signature; the model keeps  *)
(* what the code reads from it: how many dot-separated segments it has and  *)
(* what JSON.parse of the base64-decoded second segment gives.              *)

DefaultExpiryInterval == 600000
DefaultTokenGCInterval == 1800000

Subs == {"user1", "admin"}

\* conf/apitoken.json as it may be on disk; 0 stands for a key that is absent
ConfFiles == { [expiryInterval |-> 2, tokenGCInterval |-> 1],
               [expiryInterval |-> 0, tokenGCInterval |-> 0] }

\* conf.expiryInterval = conf.expiryInterval || 600000; the same for tokenGCInterval
LoadConf(file) ==
    [expiryInterval |-> IF file.expiryInterval = 0 THEN DefaultExpiryInterval ELSE file.expiryInterval,
     tokenGCInterval |-> IF file.tokenGCInterval = 0 THEN DefaultTokenGCInterval ELSE file.tokenGCInterval]

NoToken == [nseg |-> 0, parse |-> "garbage", hasExp |-> FALSE, expiryInterval |-> 0,
            sub |-> "", jti |-> 0, iatms |-> 0]

\* tokens that did not come from createSignedJWTToken, as addToken accepts any string:
\* "x.<claims with expiryInterval 1>", "h.<claims without expiryInterval>.s", "nodots"
TwoSegmentToken == [nseg |-> 2, parse |-> "ok", hasExp |-> TRUE, expiryInterval |-> 1,
                    sub |-> "user1", jti |-> 0, iatms |-> 0]
NoExpiryToken == [nseg |-> 3, parse |-> "ok", hasExp |-> FALSE, expiryInterval |-> 0,
                  sub |-> "user1", jti |-> 0, iatms |-> 0]
GarbageToken == [nseg |-> 1, parse |-> "garbage", hasExp |-> FALSE, expiryInterval |-> 0,
                 sub |-> "", jti |-> 0, iatms |-> 0]
ForeignTokens == {TwoSegmentToken, NoExpiryToken, GarbageToken}

\* JSON.parse(Buffer.from(token.split(".")[1], "base64").toString("utf8")) does not throw
ClaimsParseable(token) == token.nseg >= 2 /\ token.parse = "ok"

\* mutant: the token lives one millisecond longer
ExpiredOffByOne(token, lastAccess, timenow) ==
    token.hasExp /\ timenow - lastAccess > token.expiryInterval + 1

\* Date.now() - lastAccess > claims.expiryInterval; false when claims has
\* no expiryInterval (a comparison with undefined)
Expired(token, lastAccess, timenow) ==
    token.hasExp /\ timenow - lastAccess > token.expiryInterval

\* the properties createSignedJWTToken is given: hasExp says whether they name
\* an expiryInterval
JwtProperties == { [hasExp |-> FALSE, expiryInterval |-> 0, sub |-> "user1"],
                   [hasExp |-> TRUE, expiryInterval |-> 1, sub |-> "admin"] }

\* lines 107-119: the claims are the defaults overridden by the properties
MakeToken(jwtproperties, cnf, timenow, jti) ==
    [nseg |-> 3, parse |-> "ok", hasExp |-> TRUE,
     expiryInterval |-> IF jwtproperties.hasExp THEN jwtproperties.expiryInterval
                        ELSE cnf.expiryInterval,
     sub |-> jwtproperties.sub, jti |-> jti, iatms |-> timenow]

\* mutant: only a token that is in the table already gets a last access
updateLastAccessOnly(tokens, token, timenow) ==
    [t \in DOMAIN tokens |-> IF t = token THEN timenow ELSE tokens[t]]

\* activeTokens[token] = Date.now(); CLUSTER_MEMORY.set(...)
updateLastAccessOrAddToken(tokens, token, timenow) ==
    [t \in (DOMAIN tokens) \cup {token} |-> IF t = token THEN timenow ELSE tokens[t]]

----------------------------------------------------------------------------
(* checkSecurity and checkToken of the token manager.  needsToken and       *)
(* checkClaims are comma-separated strings, kept as the sequence of their   *)
(* items; <<>> is an absent directive.                                      *)

ToLowerCase(s) ==
    CASE s = "TRUE" -> "true" [] s = "True" -> "true" [] s = "FALSE" -> "false"
      [] s = "Bearer" -> "bearer" [] s = "BEARER" -> "bearer" [] s = "Basic" -> "basic"
      [] OTHER -> s

\* the whole string, lower-cased, equals word
IsWord(directive, word) == Len(directive) = 1 /\ ToLowerCase(directive[1]) = word

Includes(seq, x) == \E i \in 1..Len(seq) : seq[i] = x

R_NotFound == "JWT Token Error, no last access found"
R_Unparseable == "JWT Token Error, claims are not parseable"
R_Expired == "JWT Token Error, expired"
R_Access == "JWT Token Error, sub:claims doesn't match needed access level"
R_Claims == "JWT Token Error, claims check failed"
R_Malformed == "JWT malformatted"

\* claims[key] for the keys the model's claims have
Claim(token, key) == IF key = "sub" THEN token.sub ELSE Undefined
ReqField(req, key) == IF key = "sub" THEN req.sub ELSE Undefined

\* mutant: the claims named by checkClaims are not compared with the request
checkTokenNoClaimsCheck(tokens, token, accessNeeded, checkClaims, req, timenow) ==
    IF token \notin DOMAIN tokens
    THEN [ret |-> "false", reason |-> R_NotFound, code |-> 403, tokens |-> tokens]
    ELSE IF ~ClaimsParseable(token)
    THEN [ret |-> "false", reason |-> R_Unparseable, code |-> 403, tokens |-> tokens]
    ELSE IF Expired(token, tokens[token], timenow)
    THEN [ret |-> "false", reason |-> R_Expired, code |-> 403, tokens |-> tokens]
    ELSE IF accessNeeded # <<>> /\ ~IsWord(accessNeeded, "true") /\ ~Includes(accessNeeded, token.sub)
    THEN [ret |-> "false", reason |-> R_Access, code |-> 403, tokens |-> tokens]
    ELSE [ret |-> "true", reason |-> "", code |-> 0,
          tokens |-> updateLastAccessOrAddToken(tokens, token, timenow)]

\* mutant: the sub claim is not compared with the access needed
checkTokenAnySub(tokens, token, accessNeeded, checkClaims, req, timenow) ==
    IF token \notin DOMAIN tokens
    THEN [ret |-> "false", reason |-> R_NotFound, code |-> 403, tokens |-> tokens]
    ELSE IF ~ClaimsParseable(token)
    THEN [ret |-> "false", reason |-> R_Unparseable, code |-> 403, tokens |-> tokens]
    ELSE IF Expired(token, tokens[token], timenow)
    THEN [ret |-> "false", reason |-> R_Expired, code |-> 403, tokens |-> tokens]
    ELSE IF \E i \in 1..Len(checkClaims) : Claim(token, checkClaims[i]) # ReqField(req, checkClaims[i])
    THEN [ret |-> "false", reason |-> R_Claims, code |-> 403, tokens |-> tokens]
    ELSE [ret |-> "true", reason |-> "", code |-> 0,
          tokens |-> updateLastAccessOrAddToken(tokens, token, timenow)]

\* mutant: a valid token passes and its last access stays as it was
checkTokenWithoutRefresh(tokens, token, accessNeeded, checkClaims, req, timenow) ==
    IF token \notin DOMAIN tokens
    THEN [ret |-> "false", reason |-> R_NotFound, code |-> 403, tokens |-> tokens]
    ELSE IF ~ClaimsParseable(token)
    THEN [ret |-> "false", reason |-> R_Unparseable, code |-> 403, tokens |-> tokens]
    ELSE IF Expired(token, tokens[token], timenow)
    THEN [ret |-> "false", reason |-> R_Expired, code |-> 403, tokens |-> tokens]
    ELSE IF accessNeeded # <<>> /\ ~IsWord(accessNeeded, "true") /\ ~Includes(accessNeeded, token.sub)
    THEN [ret |-> "false", reason |-> R_Access, code |-> 403, tokens |-> tokens]
    ELSE IF \E i \in 1..Len(checkClaims) : Claim(token, checkClaims[i]) # ReqField(req, checkClaims[i])
    THEN [ret |-> "false", reason |-> R_Claims, code |-> 403, tokens |-> tokens]
    ELSE [ret |-> "true", reason |-> "", code |-> 0, tokens |-> tokens]

\* mutant: lastAccess is refreshed as soon as the token is found, before the
\* claims are looked at
checkTokenRefreshesFirst(tokens, token, accessNeeded, checkClaims, req, timenow) ==
    LET r == checkTokenWithoutRefresh(tokens, token, accessNeeded, checkClaims, req, timenow)
    IN IF token \in DOMAIN tokens
       THEN [r EXCEPT !.tokens = updateLastAccessOrAddToken(tokens, token, timenow)]
       ELSE r

checkToken(tokens, token, accessNeeded, checkClaims, req, timenow) ==
    IF token \notin DOMAIN tokens
    THEN [ret |-> "false", reason |-> R_NotFound, code |-> 403, tokens |-> tokens]
    ELSE IF ~ClaimsParseable(token)
    THEN [ret |-> "false", reason |-> R_Unparseable, code |-> 403, tokens |-> tokens]
    ELSE IF Expired(token, tokens[token], timenow)
    THEN [ret |-> "false", reason |-> R_Expired, code |-> 403, tokens |-> tokens]
    ELSE IF accessNeeded # <<>> /\ ~IsWord(accessNeeded, "true") /\ ~Includes(accessNeeded, token.sub)
    THEN [ret |-> "false", reason |-> R_Access, code |-> 403, tokens |-> tokens]
    ELSE IF \E i \in 1..Len(checkClaims) : Claim(token, checkClaims[i]) # ReqField(req, checkClaims[i])
    THEN [ret |-> "false", reason |-> R_Claims, code |-> 403, tokens |-> tokens]
    ELSE [ret |-> "true", reason |-> "", code |-> 0,
          tokens |-> updateLastAccessOrAddToken(tokens, token, timenow)]

\* headers["authorization"] after split(/[ \t]+/): how many pieces, the first
\* and the second of them; pieces = 0 is a missing header
NoHeader == [pieces |-> 0, scheme |-> "", token |-> NoToken]
BearerHeaders(t) == { [pieces |-> 2, scheme |-> "Bearer", token |-> t] }
MalformedHeaders ==
    { NoHeader,
      [pieces |-> 2, scheme |-> "Basic", token |-> GarbageToken],
      [pieces |-> 3, scheme |-> "Bearer", token |-> GarbageToken] }

\* mutant: the scheme of a two-piece header is not looked at
tmCheckSecurityAnyScheme(tokens, entry, req, headers, timenow) ==
    IF entry.needsToken = <<>> \/ IsWord(entry.needsToken, "false")
    THEN [ret |-> "true", reason |-> "", code |-> 0, tokens |-> tokens]
    ELSE IF headers.pieces = 2
    THEN checkToken(tokens, headers.token, entry.needsToken, entry.checkClaims, req, timenow)
    ELSE [ret |-> "false", reason |-> R_Malformed, code |-> 403, tokens |-> tokens]

tmCheckSecurity(tokens, entry, req, headers, timenow) ==
    IF entry.needsToken = <<>> \/ IsWord(entry.needsToken, "false")
    THEN [ret |-> "true", reason |-> "", code |-> 0, tokens |-> tokens]
    ELSE IF headers.pieces = 2 /\ ToLowerCase(headers.scheme) = "bearer"
    THEN checkToken(tokens, headers.token, entry.needsToken, entry.checkClaims, req, timenow)
    ELSE [ret |-> "false", reason |-> R_Malformed, code |-> 403, tokens |-> tokens]

\* checkHeaderToken passes the entry {query: {needsToken: true}}: its
\* needsToken is the boolean true, not the string of a registry entry's query
BooleanTrue == <<"(boolean)", "true">>
HeaderTokenEntry == [needsToken |-> BooleanTrue, checkClaims |-> << >>]
\* the req argument of checkHeaderToken: {}
EmptyRequest == [sub |-> Undefined]

\* typeof v.toLowerCase == "function": strings have the method, booleans not
HasToLowerCase(v) == v # BooleanTrue

\* line 37 for a needsToken of any type: a falsy one returns at once, a truthy
\* one is sent toLowerCase(), which throws a TypeError if it has no such method
checkSecurityThrows(entry) == entry.needsToken # << >> /\ ~HasToLowerCase(entry.needsToken)

\* line 34: checkSecurity({query: {needsToken: true}}, undefined, {}, headers, undefined, {})
checkHeaderToken(tokens, headers, timenow) ==
    IF checkSecurityThrows(HeaderTokenEntry)
    THEN [ret |-> "threw", reason |-> "TypeError", code |-> 0, tokens |-> tokens]
    ELSE tmCheckSecurity(tokens, HeaderTokenEntry, EmptyRequest, headers, timenow)

----------------------------------------------------------------------------
(* The token manager's operations.                                          *)

\* the entries (their query) and requests the token manager is called with
TokenEntries == [needsToken : { <<>>, <<"true">>, <<"FALSE">>, <<"admin">> },
                 checkClaims : { <<>> }]
                \cup [needsToken : { <<"TRUE">> }, checkClaims : { <<"sub">> }]
\* the entries the life of a token is followed with
LifeEntries == [needsToken : { <<>>, <<"true">>, <<"admin">> }, checkClaims : { <<>> }]
\* the accessNeeded and checkClaims arguments of direct checkToken calls
DirectEntries == [needsToken : { <<>>, <<"admin">> }, checkClaims : { <<>> }]
Requests == [sub : {"user1"}]

\* One key of the addsToken directive, "key:templateValue": the template
\* text, and what mustache.render gives for it against the response and
\* against the request ("" when the template names nothing they have).
NoKey == [has |-> FALSE, value |-> "", fromResponse |-> "", fromRequest |-> ""]
Literal(v) == [has |-> TRUE, value |-> v, fromResponse |-> v, fromRequest |-> v]
FromRequestOnly(v) == [has |-> TRUE, value |-> "{{ok}}", fromResponse |-> "", fromRequest |-> v]

\* entry.query.addsToken: absent, or a directive with or without the keys
\* flag and tokenflag (its other keys make the claims of the token)
NoDirective == [present |-> FALSE, flag |-> NoKey, tokenflag |-> NoKey]
Directives ==
    [present : {TRUE},
     flag : {NoKey, Literal("true"), Literal("false"), FromRequestOnly("false")},
     tokenflag : {NoKey, Literal("true"), Literal("false")}]

\* the response headers the token manager writes
NoResponseHeaders == [access_token |-> NoToken, token_type |-> "", authorization |-> NoHeader]

TLastBase ==
    [op |-> "none", token |-> NoToken, needsToken |-> <<>>, checkClaims |-> <<>>,
     headers |-> NoHeader, reqSub |-> "", ret |-> "undefined", reason |-> "", code |-> 0,
     lastAccess |-> 0, prevTouch |-> 0, before |-> << >>, events |-> {},
     directive |-> << >>, result |-> FALSE, made |-> FALSE,
     respIn |-> << >>, respOut |-> << >>]

\* the tokens a caller presents: those made so far, those in the table, and one
\* that never was in it
KnownTokens == issued \cup (DOMAIN activeTokens) \cup {GarbageToken}

LastAccessOf(tokens, t) == IF t \in DOMAIN tokens THEN tokens[t] ELSE 0
TouchOf(t) == IF t \in DOMAIN touched THEN touched[t] ELSE 0
Touch(t) == [k \in (DOMAIN touched) \cup {t} |-> IF k = t THEN now ELSE touched[k]]

\* the entry asks for a token
TokenNeeded(needsToken) == needsToken # <<>> /\ ~IsWord(needsToken, "false")

\* the call presents the token of its header where a token is asked for
Presented(entry, headers) ==
    TokenNeeded(entry.needsToken) /\ headers \in BearerHeaders(headers.token)

\* The server is single threaded: a call runs to its end before the next one
\* starts.  tlast holds the call that has just returned; Return is its caller
\* having read the result, and every call starts from tlast.op = "none".
Return ==
    /\ tlast.op # "none"
    /\ tlast' = TLastBase
    /\ UNCHANGED <<now, activeTokens, conf, gcDue, jtiNext, issued, touched, tampered, listeners>>
    /\ UNCHANGED <<regVars, auxVars>>

\* a validation starts after the previous call was read, or straight after a
\* call that released or issued the same token (the caller validates what it
\* has just released or been given)
CanValidate(token) ==
    \/ tlast.op = "none"
    \/ tlast.op \in {"releaseToken", "injectResponseHeaders"} /\ tlast.token = token

Tick ==
    /\ tlast.op = "none"
    /\ now < MaxTime
    /\ now' = now + 1
    /\ tlast' = TLastBase
    /\ UNCHANGED <<activeTokens, conf, gcDue, jtiNext, issued, touched, tampered, listeners>>
    /\ UNCHANGED <<regVars, auxVars>>

CreateSignedJWTToken(jwtproperties) ==
    LET token == MakeToken(jwtproperties, conf, now, jtiNext) IN
    /\ tlast.op = "none"
    /\ jtiNext <= MaxTokens
    /\ Cardinality(DOMAIN activeTokens) < MaxLive
    /\ activeTokens' = updateLastAccessOrAddToken(activeTokens, token, now)
    /\ jtiNext' = jtiNext + 1
    /\ issued' = issued \cup {token}
    /\ touched' = Touch(token)
    /\ tlast' = [TLastBase EXCEPT !.op = "createSignedJWTToken", !.token = token, !.ret = "value"]
    /\ UNCHANGED <<now, conf, gcDue, tampered, listeners>>
    /\ UNCHANGED <<regVars, auxVars>>

TMCheckSecurity(entry, req, headers) ==
    LET r == tmCheckSecurity(activeTokens, entry, req, headers, now) IN
    /\ CanValidate(headers.token)
    /\ activeTokens' = r.tokens
    /\ touched' = IF r.ret = "true" /\ headers.token \in DOMAIN touched /\ Presented(entry, headers)
                  THEN Touch(headers.token) ELSE touched
    /\ tlast' = [TLastBase EXCEPT !.op = "checkSecurity", !.token = headers.token,
                    !.needsToken = entry.needsToken, !.checkClaims = entry.checkClaims,
                    !.headers = headers, !.reqSub = req.sub,
                    !.ret = r.ret, !.reason = r.reason, !.code = r.code,
                    !.lastAccess = LastAccessOf(activeTokens, headers.token),
                    !.prevTouch = TouchOf(headers.token)]
    /\ UNCHANGED <<now, conf, gcDue, jtiNext, issued, tampered, listeners>>
    /\ UNCHANGED <<regVars, auxVars>>

CheckToken(token, accessNeeded, checkClaims, req) ==
    LET r == checkToken(activeTokens, token, accessNeeded, checkClaims, req, now) IN
    /\ CanValidate(token)
    /\ activeTokens' = r.tokens
    /\ touched' = IF r.ret = "true" /\ token \in DOMAIN touched THEN Touch(token) ELSE touched
    /\ tlast' = [TLastBase EXCEPT !.op = "checkToken", !.token = token,
                    !.needsToken = accessNeeded, !.checkClaims = checkClaims, !.reqSub = req.sub,
                    !.ret = r.ret, !.reason = r.reason, !.code = r.code,
                    !.lastAccess = LastAccessOf(activeTokens, token),
                    !.prevTouch = TouchOf(token)]
    /\ UNCHANGED <<now, conf, gcDue, jtiNext, issued, tampered, listeners>>
    /\ UNCHANGED <<regVars, auxVars>>

CheckHeaderToken(headers) ==
    LET r == checkHeaderToken(activeTokens, headers, now) IN
    /\ CanValidate(headers.token)
    /\ activeTokens' = r.tokens
    /\ touched' = IF r.ret = "true" /\ headers.token \in DOMAIN touched
                  THEN Touch(headers.token) ELSE touched
    /\ tlast' = [TLastBase EXCEPT !.op = "checkHeaderToken", !.token = headers.token,
                    !.headers = headers, !.ret = r.ret, !.reason = r.reason, !.code = r.code,
                    !.before = activeTokens,
                    !.lastAccess = LastAccessOf(activeTokens, headers.token),
                    !.prevTouch = TouchOf(headers.token)]
    /\ UNCHANGED <<now, conf, gcDue, jtiNext, issued, tampered, listeners>>
    /\ UNCHANGED <<regVars, auxVars>>

\* addToken: the exported name of updateLastAccessOrAddToken
AddToken(token) ==
    /\ tlast.op = "none"
    /\ token \in DOMAIN activeTokens \/ Cardinality(DOMAIN activeTokens) < MaxLive
    /\ activeTokens' = updateLastAccessOrAddToken(activeTokens, token, now)
    /\ tampered' = tampered \cup ({token} \cap issued)
    /\ touched' = [k \in (DOMAIN touched) \ {token} |-> touched[k]]
    /\ tlast' = [TLastBase EXCEPT !.op = "addToken", !.token = token]
    /\ UNCHANGED <<now, conf, gcDue, jtiNext, issued, listeners>>
    /\ UNCHANGED <<regVars, auxVars>>

\* mutant: the entry stays in the table
releaseTokenKeepsEntry(tokens, token) == tokens

releaseToken(tokens, token) == [t \in (DOMAIN tokens) \ {token} |-> tokens[t]]

ReleaseToken(token) ==
    /\ tlast.op = "none"
    /\ activeTokens' = releaseToken(activeTokens, token)
    /\ tampered' = tampered \cup ({token} \cap issued)
    /\ touched' = [k \in (DOMAIN touched) \ {token} |-> touched[k]]
    /\ tlast' = [TLastBase EXCEPT !.op = "releaseToken", !.token = token]
    /\ UNCHANGED <<now, conf, gcDue, jtiNext, issued, listeners>>
    /\ UNCHANGED <<regVars, auxVars>>

\* the event names as the code spells them (lines 99 and 138)
EV_Generated == "token_generated"
EV_Expired == "token_expireed"

\* for (const tokenListener of _jwttokenListeners) tokenListener(event, token):
\* one call per position of the list
Notify(ls, event, token) ==
    { [pos |-> i, listener |-> ls[i], event |-> event, token |-> token] : i \in 1..Len(ls) }

Listeners == {"l1", "l2"}

\* addListener: push, whether or not the listener is in the list already
addListener(ls, listener) == Append(ls, listener)

AddListener(listener) ==
    /\ tlast.op = "none"
    /\ Len(listeners) < MaxListeners
    /\ listeners' = addListener(listeners, listener)
    /\ tlast' = [TLastBase EXCEPT !.op = "addListener"]
    /\ UNCHANGED <<now, activeTokens, conf, gcDue, jtiNext, issued, touched, tampered>>
    /\ UNCHANGED <<regVars, auxVars>>

\* indexOf and splice(index, 1): the first occurrence goes, if there is one
removeListener(ls, listener) ==
    IF \E i \in 1..Len(ls) : ls[i] = listener
    THEN LET i == CHOOSE k \in 1..Len(ls) : ls[k] = listener /\ \A j \in 1..(k - 1) : ls[j] # listener
         IN [j \in 1..(Len(ls) - 1) |-> IF j < i THEN ls[j] ELSE ls[j + 1]]
    ELSE ls

RemoveListener(listener) ==
    /\ tlast.op = "none"
    /\ listeners' = removeListener(listeners, listener)
    /\ tlast' = [TLastBase EXCEPT !.op = "removeListener"]
    /\ UNCHANGED <<now, activeTokens, conf, gcDue, jtiNext, issued, touched, tampered>>
    /\ UNCHANGED <<regVars, auxVars>>

\* getClaims(token) is {} when the claims do not parse, and {} has no expiryInterval
Evicted(tokens, timenow) ==
    {t \in DOMAIN tokens : ClaimsParseable(t) /\ Expired(t, tokens[t], timenow)}

_cleanTokens(tokens, timenow) ==
    [t \in (DOMAIN tokens) \ Evicted(tokens, timenow) |-> tokens[t]]

\* line 150: the response's rendering if it is not empty, else the request's
\* (never for the key "flag"), else the template text itself
Rendered(key, k) ==
    IF ~k.has THEN Undefined
    ELSE IF k.fromResponse # "" THEN k.fromResponse
    ELSE IF k.fromRequest # "" /\ key # "flag" THEN k.fromRequest
    ELSE k.value

_parseAddstokenString(directive) ==
    [flag |-> Rendered("flag", directive.flag),
     tokenflag |-> Rendered("tokenflag", directive.tokenflag)]

\* a value of the parsed directive is truthy: there, and not the empty string
Truthy(v) == v # Undefined /\ v # ""

\* utils.parseBoolean: "false" in any letter case is false, other text true
ParseBoolean(v) == Truthy(v) /\ ToLowerCase(v) # "false"

\* the properties of the tokens a directive makes: its other keys
DirectiveProperties == [hasExp |-> FALSE, expiryInterval |-> 0, sub |-> "user1"]

\* mutant: the token goes into the table and to the listeners, not into the headers
tmInjectResponseHeadersNoHeaders(tokens, directive, result, responseHeaders, ls, cnf, timenow, jti) ==
    LET parsed == _parseAddstokenString(directive)
        token == MakeToken(DirectiveProperties, cnf, timenow, jti)
        none == [made |-> FALSE, token |-> NoToken, tokens |-> tokens,
                 respOut |-> responseHeaders, events |-> {}]
    IN IF ~directive.present THEN none
       ELSE IF Truthy(parsed.tokenflag) /\ ~ParseBoolean(parsed.tokenflag) THEN none
       ELSE IF ~Truthy(parsed.tokenflag) /\ ~result THEN none
       ELSE [made |-> TRUE, token |-> token,
             tokens |-> updateLastAccessOrAddToken(tokens, token, timenow),
             respOut |-> responseHeaders,
             events |-> Notify(ls, EV_Generated, token)]

\* injectResponseHeaders and injectResponseHeadersInternal, lines 85-100
tmInjectResponseHeaders(tokens, directive, result, responseHeaders, ls, cnf, timenow, jti) ==
    LET parsed == _parseAddstokenString(directive)
        token == MakeToken(DirectiveProperties, cnf, timenow, jti)
        none == [made |-> FALSE, token |-> NoToken, tokens |-> tokens,
                 respOut |-> responseHeaders, events |-> {}]
    IN IF ~directive.present THEN none
       ELSE IF Truthy(parsed.tokenflag) /\ ~ParseBoolean(parsed.tokenflag) THEN none
       ELSE IF ~Truthy(parsed.tokenflag) /\ ~result THEN none
       ELSE [made |-> TRUE, token |-> token,
             tokens |-> updateLastAccessOrAddToken(tokens, token, timenow),
             respOut |-> [access_token |-> token, token_type |-> "bearer",
                          authorization |-> [pieces |-> 2, scheme |-> "Bearer", token |-> token]],
             events |-> Notify(ls, EV_Generated, token)]

\* the response headers the caller hands in
ResponseHeaders ==
    { NoResponseHeaders, [NoResponseHeaders EXCEPT !.token_type = "mac"] }

TMInjectResponseHeaders(directive, result, responseHeaders) ==
    LET r == tmInjectResponseHeaders(activeTokens, directive, result, responseHeaders,
                                     listeners, conf, now, jtiNext) IN
    /\ tlast.op = "none"
    /\ r.made => jtiNext <= MaxTokens /\ Cardinality(DOMAIN activeTokens) < MaxLive
    /\ activeTokens' = r.tokens
    /\ jtiNext' = IF r.made THEN jtiNext + 1 ELSE jtiNext
    /\ issued' = IF r.made THEN issued \cup {r.token} ELSE issued
    /\ touched' = IF r.made THEN Touch(r.token) ELSE touched
    /\ tlast' = [TLastBase EXCEPT !.op = "injectResponseHeaders", !.token = r.token,
                    !.directive = directive, !.result = result, !.made = r.made,
                    !.respIn = responseHeaders, !.respOut = r.respOut,
                    !.before = activeTokens, !.events = r.events]
    /\ UNCHANGED <<now, conf, gcDue, tampered, listeners>>
    /\ UNCHANGED <<regVars, auxVars>>

\* the calls of line 138, one per evicted token and registered listener
SweepEvents(tokens, ls, timenow) ==
    UNION { Notify(ls, EV_Expired, t) : t \in Evicted(tokens, timenow) }

\* the setInterval timer fires, and is armed again conf.tokenGCInterval from now
CleanTokens ==
    /\ tlast.op = "none"
    /\ now >= gcDue
    /\ gcDue' = now + conf.tokenGCInterval
    /\ activeTokens' = _cleanTokens(activeTokens, now)
    /\ tlast' = [TLastBase EXCEPT !.op = "_cleanTokens", !.before = activeTokens,
                    !.events = SweepEvents(activeTokens, listeners, now)]
    /\ UNCHANGED <<now, conf, jtiNext, issued, touched, tampered, listeners>>
    /\ UNCHANGED <<regVars, auxVars>>

----------------------------------------------------------------------------
(* The stages of a chain call.  A stage (one module of the chain) is "sync" *)
(* when its function returns its result, and "async" when it returns a      *)
(* promise that settles in a later tick.  decodeIncomingData, encodeResponse *)
(* and injectResponseHeaders call their stages in a plain loop;             *)
(* checkSecurity awaits each stage before it goes on.                       *)

StageKinds == {"sync", "async"}

NoStages ==
    [op |-> "none", kinds |-> << >>, started |-> << >>, finished |-> {},
     unfinishedAtStart |-> << >>, received |-> << >>]

\* lines 86, 97 and 129-130: every stage is called in the same tick; a stage
\* gets what the stage before it returned, a promise when that one is async
PlainLoop(op, kinds) ==
    [op |-> op, kinds |-> kinds,
     started |-> [i \in 1..Len(kinds) |-> i],
     finished |-> {i \in 1..Len(kinds) : kinds[i] = "sync"},
     unfinishedAtStart |-> [i \in 1..Len(kinds) |-> {j \in 1..(i - 1) : kinds[j] = "async"}],
     received |-> [i \in 1..Len(kinds) |->
                     IF i > 1 /\ kinds[i - 1] = "async" THEN "promise" ELSE "result"]]

\* lines 111-112 from stage i on: the loop calls stage i and waits at the
\* await until its promise has settled
RECURSIVE AwaitedLoop(_, _)
AwaitedLoop(st, i) ==
    IF i > Len(st.kinds) THEN st
    ELSE LET called == [st EXCEPT !.started = Append(@, i),
                                  !.unfinishedAtStart = Append(@, (1..(i - 1)) \ st.finished),
                                  !.received = Append(@, "result")]
         IN IF st.kinds[i] = "async" THEN called
            ELSE AwaitedLoop([called EXCEPT !.finished = @ \cup {i}], i + 1)

\* the chain a call runs: none when the endpoint is not registered
StagesOf(op, url) ==
    IF ~HasEntry(apireg, EndPoint(url)) THEN << >>
    ELSE IF op = "decodeIncomingData" THEN decoders
    ELSE IF op = "encodeResponse" THEN encoders
    ELSE IF op = "injectResponseHeaders" THEN headermanagers
    ELSE securitycheckers

\* a chain call starts when the one before it is over
StartChain(op, url, kinds) ==
    /\ stages.op = "none" \/ stages.finished = 1..Len(stages.kinds)
    /\ Len(kinds) = Len(StagesOf(op, url))
    /\ stages' = IF op = "checkSecurity"
                  THEN AwaitedLoop([NoStages EXCEPT !.op = op, !.kinds = kinds], 1)
                  ELSE PlainLoop(op, kinds)
    /\ UNCHANGED <<regVars, tokVars, workers, boot>>

\* the promise of stage i settles; the awaited loop goes on from stage i + 1
StageSettles(i) ==
    /\ i \in 1..Len(stages.started)
    /\ stages.started[i] \notin stages.finished
    /\ LET k == stages.started[i]
           done == [stages EXCEPT !.finished = @ \cup {k}]
       IN stages' = IF stages.op = "checkSecurity" THEN AwaitedLoop(done, k + 1) ELSE done
    /\ UNCHANGED <<regVars, tokVars, workers, boot>>

----------------------------------------------------------------------------
(* Worker processes.  Every worker runs the token manager over the same     *)
(* shared store.  A token manager function is synchronous, so inside one    *)
(* worker a call runs to its end; between the workers the calls interleave   *)
(* at each CLUSTER_MEMORY.get and CLUSTER_MEMORY.set.  A worker holds the   *)
(* copy it got and changed (writes: the tables it has still to set).        *)

Workers == {"w1", "w2"}

IdleWorker ==
    [op |-> "idle", pc |-> "done", token |-> NoToken, writes |-> << >>, written |-> 0,
     ret |-> "undefined", at |-> 0, seen |-> << >>, midSweep |-> FALSE]

Idle(w) == workers[w].pc = "done"

\* CLUSTER_MEMORY.get(key): the whole table, as it is in the store at that moment
ClusterGet(store) == store

\* another worker is inside a sweep: it has got the table and not set it yet
SweepUnderWay(w) ==
    \E v \in Workers \ {w} : workers[v].op = "_cleanTokens" /\ workers[v].pc = "set"

\* another worker's sweep has set a part of what it sets
SweepHalfWritten(w) ==
    \E v \in Workers \ {w} :
        workers[v].op = "_cleanTokens" /\ workers[v].pc = "set" /\ workers[v].written > 0

\* mutant: the sweep sets the table after every delete
SweepSetsEachDelete(local, timenow) ==
    IF Cardinality(Evicted(local, timenow)) < 2 THEN << _cleanTokens(local, timenow) >>
    ELSE LET first == CHOOSE t \in Evicted(local, timenow) : TRUE
         IN << [t \in (DOMAIN local) \ {first} |-> local[t]], _cleanTokens(local, timenow) >>

\* lines 133-141: the deletes are made on the copy; the one set is at the end
SweepSets(local, timenow) == << _cleanTokens(local, timenow) >>

\* checkToken, line 46: the get whose table decides the result
WCheckTokenGet(w, token, accessNeeded, checkClaims, req) ==
    LET local == ClusterGet(activeTokens)
        r == checkToken(local, token, accessNeeded, checkClaims, req, now)
    IN /\ Idle(w)
       /\ workers' = [workers EXCEPT ![w] =
              [IdleWorker EXCEPT !.op = "checkToken", !.token = token, !.ret = r.ret,
                                 !.at = now, !.midSweep = SweepUnderWay(w),
                                 !.pc = IF r.ret = "true" THEN "get" ELSE "done"]]
       /\ UNCHANGED <<regVars, tokVars, stages, boot>>

\* checkToken, line 67: updateLastAccessOrAddToken gets the table again (lines 72-73)
WRefreshGet(w) ==
    /\ workers[w].op = "checkToken" /\ workers[w].pc = "get"
    /\ workers' = [workers EXCEPT ![w].pc = "set",
          ![w].writes = << updateLastAccessOrAddToken(ClusterGet(activeTokens), workers[w].token, now) >>]
    /\ UNCHANGED <<regVars, tokVars, stages, boot>>

\* createSignedJWTToken up to the get of updateLastAccessOrAddToken (lines 107-120, 72-73)
WCreateGet(w, jwtproperties) ==
    LET token == MakeToken(jwtproperties, conf, now, jtiNext) IN
    /\ Idle(w)
    /\ jtiNext <= MaxTokens
    /\ Cardinality(DOMAIN activeTokens) < MaxLive
    /\ jtiNext' = jtiNext + 1
    /\ workers' = [workers EXCEPT ![w] =
           [IdleWorker EXCEPT !.op = "createSignedJWTToken", !.token = token, !.pc = "set",
                              !.ret = "value",
                              !.writes = << updateLastAccessOrAddToken(ClusterGet(activeTokens), token, now) >>]]
    /\ UNCHANGED <<now, activeTokens, conf, gcDue, issued, touched, tampered, dead, listeners, tlast>>
    /\ UNCHANGED <<regVars, stages, boot>>

\* addToken up to its get (lines 72-73)
WAddTokenGet(w, token) ==
    /\ Idle(w)
    /\ token \in DOMAIN activeTokens \/ Cardinality(DOMAIN activeTokens) < MaxLive
    /\ workers' = [workers EXCEPT ![w] =
           [IdleWorker EXCEPT !.op = "addToken", !.token = token, !.pc = "set",
                              !.writes = << updateLastAccessOrAddToken(ClusterGet(activeTokens), token, now) >>]]
    /\ UNCHANGED <<regVars, tokVars, stages, boot>>

\* releaseToken up to its set (lines 78-80): nothing is set when the token is not there
WReleaseGet(w, token) ==
    LET local == ClusterGet(activeTokens) IN
    /\ Idle(w)
    /\ workers' = [workers EXCEPT ![w] =
           [IdleWorker EXCEPT !.op = "releaseToken", !.token = token,
                              !.pc = IF token \in DOMAIN local THEN "set" ELSE "done",
                              !.writes = IF token \in DOMAIN local
                                         THEN << releaseToken(local, token) >> ELSE << >>]]
    /\ UNCHANGED <<regVars, tokVars, stages, boot>>

\* the timer of one worker fires: _cleanTokens up to its set (lines 133-140)
WSweepGet(w) ==
    LET local == ClusterGet(activeTokens) IN
    /\ Idle(w)
    /\ workers' = [workers EXCEPT ![w] =
           [IdleWorker EXCEPT !.op = "_cleanTokens", !.pc = "set", !.seen = local,
                              !.writes = SweepSets(local, now)]]
    /\ UNCHANGED <<regVars, tokVars, stages, boot>>

\* CLUSTER_MEMORY.set(key, table): lines 74, 81 and 141; the call returns
\* after its last set, createSignedJWTToken with the token it made
WSet(w) ==
    /\ workers[w].pc = "set"
    /\ activeTokens' = Head(workers[w].writes)
    /\ issued' = IF workers[w].op = "createSignedJWTToken"
                  THEN issued \cup {workers[w].token} ELSE issued
    /\ workers' = [workers EXCEPT ![w].writes = Tail(@), ![w].written = @ + 1,
                                   ![w].pc = IF Len(workers[w].writes) = 1 THEN "done" ELSE "set"]
    /\ UNCHANGED <<now, conf, gcDue, jtiNext, touched, tampered, dead, listeners, tlast>>
    /\ UNCHANGED <<regVars, stages, boot>>

----------------------------------------------------------------------------
(* initSync of the registry and of the token manager.  boot.stored and      *)
(* boot.tokensStored say whether the shared store holds a registry table    *)
(* and a table of tokens; while it holds none the variable is the empty     *)
(* function.  The registry calls the initSync of every loaded module that   *)
(* has one; the token manager is such a module, loaded under the name       *)
(* jwttokenmanager in every chain whose manifest lists it.                  *)

MaxRuns == 3

\* the registry files an installation may have
CoreRegistryFiles == UNION { [S -> FileEntries] : S \in SUBSET Paths }
AppRegistryFiles == { << >>, [k \in {"/p2"} |-> E1] }

TM == "jwttokenmanager"
\* the extensions that export initSync
HookModules == {TM, "d1", "e2", "sc1"}

\* a token another worker has put in the shared table
StoredTokens == [t \in {TwoSegmentToken} |-> 1]

\* manifests that list the token manager: in no chain, in one, in two
BootSecurityManifests ==
    { << <<[name |-> "sc1", priority |-> 20], [name |-> TM, priority |-> 10]>> >>,
      << <<[name |-> "sc1", priority |-> 10]>> >> }
BootHeaderManifests ==
    { << <<[name |-> "h1", priority |-> 10], [name |-> TM, priority |-> 20]>> >>,
      << <<[name |-> "h1", priority |-> 10]>> >> }

\* lines 17-52: the table initSync sets in the store.  The table the store
\* holds stands in for the core registry file; the application's overlay is
\* read from its file in every run.
initSyncTable(stored, table, coreFile, appFile) ==
    LET base == IF stored THEN table ELSE coreFile
        core == [k \in DOMAIN base |-> Rooted(base[k], ROOTDIR)]
        app1 == [k \in DOMAIN appFile |-> Rooted(appFile[k], APPROOT)]
    IN Merge(core, app1)

\* for (const m of chain) if (m.initSync) m.initSync(apireg): one of the
\* loops of lines 59-62, with the table the store holds while it runs
HookCalls(chainName, chain, table, store) ==
    LET hooked == SelectSeq(chain, LAMBDA m : m \in HookModules)
    IN [i \in 1..Len(hooked) |->
          [chain |-> chainName, module |-> hooked[i], table |-> table, store |-> store]]

\* the four loops of lines 59-62, one after the other
HooksEncodersFirst(d, sc, h, e, table, store) ==
    HookCalls("encoders", e, table, store) \o HookCalls("decoders", d, table, store)
      \o HookCalls("securitycheckers", sc, table, store)
      \o HookCalls("headermanagers", h, table, store)

Hooks(d, sc, h, e, table, store) ==
    HookCalls("decoders", d, table, store) \o HookCalls("securitycheckers", sc, table, store)
      \o HookCalls("headermanagers", h, table, store) \o HookCalls("encoders", e, table, store)

\* the token manager's state that its initSync reads and writes
TMState == [alreadyInit |-> boot.alreadyInit, timers |-> boot.timers,
            tokensStored |-> boot.tokensStored, tokens |-> activeTokens,
            conf |-> conf, gcDue |-> gcDue, calls |-> boot.tmCalls]

\* initSync without the guard of line 22
tmInitSyncUnguarded(tm, file, timenow) ==
    [alreadyInit |-> TRUE, timers |-> tm.timers + 1, tokensStored |-> TRUE,
     tokens |-> IF tm.tokensStored THEN tm.tokens ELSE << >>,
     conf |-> LoadConf(file), gcDue |-> timenow + LoadConf(file).tokenGCInterval,
     calls |-> tm.calls + 1]

\* jwttokenmanager.js initSync, lines 21-32
tmInitSync(tm, file, timenow) ==
    IF tm.alreadyInit THEN [tm EXCEPT !.calls = @ + 1]
    ELSE [alreadyInit |-> TRUE, timers |-> tm.timers + 1, tokensStored |-> TRUE,
          tokens |-> IF tm.tokensStored THEN tm.tokens ELSE << >>,
          conf |-> LoadConf(file), gcDue |-> timenow + LoadConf(file).tokenGCInterval,
          calls |-> tm.calls + 1]

\* n calls of the token manager's initSync in a row
RECURSIVE tmInitSyncTimes(_, _, _, _)
tmInitSyncTimes(n, tm, file, timenow) ==
    IF n = 0 THEN tm ELSE tmInitSyncTimes(n - 1, tmInitSync(tm, file, timenow), file, timenow)

\* apiregistry.js initSync, lines 16-65, with the hooks it calls
InitSync(file) ==
    /\ boot.runs < MaxRuns
    /\ LET table == initSyncTable(boot.stored, apireg, regfile, boot.appFile)
           d == _loadSortedConfOjbects(chainManifests.decoders)
           e == _loadSortedConfOjbects(chainManifests.encoders)
           h == _loadSortedConfOjbects(chainManifests.headermanagers)
           sc == _loadSortedConfOjbects(chainManifests.securitycheckers)
           calls == Hooks(d, sc, h, e, table, table)   \* the set of line 52 comes first
           n == Len(SelectSeq(calls, LAMBDA c : c.module = TM))
           tm == tmInitSyncTimes(n, TMState, file, now)
       IN /\ apireg' = table
          /\ decoders' = d /\ encoders' = e /\ headermanagers' = h /\ securitycheckers' = sc
          /\ activeTokens' = tm.tokens /\ conf' = tm.conf /\ gcDue' = tm.gcDue
          /\ boot' = [boot EXCEPT !.stored = TRUE, !.readCore = ~boot.stored, !.runs = @ + 1,
                                  !.hookLog = calls, !.alreadyInit = tm.alreadyInit,
                                  !.timers = tm.timers, !.tokensStored = tm.tokensStored,
                                  !.tmCalls = tm.calls]
    /\ last' = LastBase
    /\ UNCHANGED <<regfile, customCheckers, chainManifests, inflight>>
    /\ UNCHANGED <<now, jtiNext, issued, touched, tampered, dead, listeners, tlast>>
    /\ UNCHANGED <<stages, workers>>

\* a call of the token manager's exported initSync
TMInitSync(file) ==
    /\ boot.tmCalls < MaxRuns
    /\ LET tm == tmInitSync(TMState, file, now)
       IN /\ activeTokens' = tm.tokens /\ conf' = tm.conf /\ gcDue' = tm.gcDue
          /\ boot' = [boot EXCEPT !.alreadyInit = tm.alreadyInit, !.timers = tm.timers,
                                  !.tokensStored = tm.tokensStored, !.tmCalls = tm.calls]
    /\ UNCHANGED <<regVars, now, jtiNext, issued, touched, tampered, dead, listeners, tlast>>
    /\ UNCHANGED <<stages, workers>>

\* before the first initSync of a process: nothing loaded; the store holds
\* no registry table, and a table of tokens only if another worker made one
NotBooted(appFile, tokensStored) ==
    [stored |-> FALSE, appFile |-> appFile, readCore |-> FALSE, runs |-> 0, hookLog |-> << >>,
     alreadyInit |-> FALSE, timers |-> 0, tokensStored |-> tokensStored, tmCalls |-> 0]

NoConf == [expiryInterval |-> 0, tokenGCInterval |-> 0]

----------------------------------------------------------------------------
(* Initial states: the registry and the token manager after initSync.       *)

\* no chain call in progress
InitAux ==
    /\ stages = NoStages
    /\ workers = [w \in Workers |-> IdleWorker]

\* both modules after one initSync, with the application's overlay registry
Booted(appFile) ==
    [stored |-> TRUE, appFile |-> appFile, readCore |-> TRUE, runs |-> 1, hookLog |-> << >>,
     alreadyInit |-> TRUE, timers |-> 1, tokensStored |-> TRUE, tmCalls |-> 1]


InitRegistry ==
    /\ \E coreFile \in CoreRegistryFiles, appFile \in AppRegistryFiles :
          /\ regfile = coreFile
          /\ apireg = InitSyncTable(coreFile, appFile)
          /\ boot = Booted(appFile)
    /\ customCheckers = {}
    /\ chainManifests \in [decoders : DecoderManifests, encoders : EncoderManifests,
                     headermanagers : HeaderManifests, securitycheckers : SecurityManifests]
    /\ decoders = _loadSortedConfOjbects(chainManifests.decoders)
    /\ encoders = _loadSortedConfOjbects(chainManifests.encoders)
    /\ headermanagers = _loadSortedConfOjbects(chainManifests.headermanagers)
    /\ securitycheckers = _loadSortedConfOjbects(chainManifests.securitycheckers)
    /\ inflight = << >>
    /\ last = LastBase

InitTokens ==
    /\ now = 1
    /\ activeTokens = << >>
    /\ \E file \in ConfFiles : conf = LoadConf(file)
    /\ gcDue = now + conf.tokenGCInterval
    /\ jtiNext = 1
    /\ issued = {}
    /\ touched = << >>
    /\ tampered = {}
    /\ dead = {}
    /\ listeners = << >>
    /\ tlast = TLastBase

\* the registry alone, the token manager idle
InitR ==
    /\ InitRegistry
    /\ now = 1 /\ activeTokens = << >> /\ conf = LoadConf([expiryInterval |-> 0, tokenGCInterval |-> 0])
    /\ gcDue = now + conf.tokenGCInterval /\ jtiNext = 1 /\ issued = {} /\ touched = << >>
    /\ tampered = {} /\ dead = {} /\ listeners = << >> /\ tlast = TLastBase
    /\ InitAux

\* an installation without an application overlay: the table is the core
\* registry file, its targets rooted
InitP == InitR /\ boot.appFile = << >>

\* one registry table, the four chains loaded from the same manifests
InitC ==
    /\ regfile = [k \in {"/p1"} |-> E1]
    /\ apireg = InitSyncTable(regfile, << >>)
    /\ boot = Booted(<< >>)
    /\ customCheckers = {}
    /\ \E m \in ChainSources :
          chainManifests = [decoders |-> m, encoders |-> m, headermanagers |-> m,
                            securitycheckers |-> m]
    /\ decoders = _loadSortedConfOjbects(chainManifests.decoders)
    /\ encoders = _loadSortedConfOjbects(chainManifests.encoders)
    /\ headermanagers = _loadSortedConfOjbects(chainManifests.headermanagers)
    /\ securitycheckers = _loadSortedConfOjbects(chainManifests.securitycheckers)
    /\ inflight = << >>
    /\ last = LastBase
    /\ now = 1 /\ activeTokens = << >> /\ conf = LoadConf([expiryInterval |-> 0, tokenGCInterval |-> 0])
    /\ gcDue = now + conf.tokenGCInterval /\ jtiNext = 1 /\ issued = {} /\ touched = << >>
    /\ tampered = {} /\ dead = {} /\ listeners = << >> /\ tlast = TLastBase
    /\ InitAux

\* the token manager alone, over one registry
InitT ==
    /\ InitTokens
    /\ regfile = << >> /\ apireg = << >> /\ customCheckers = {}
    /\ decoders = << >> /\ encoders = << >> /\ headermanagers = << >> /\ securitycheckers = << >>
    /\ chainManifests = [decoders |-> << >>, encoders |-> << >>, headermanagers |-> << >>,
                    securitycheckers |-> << >>]
    /\ inflight = << >> /\ last = LastBase
    /\ boot = Booted(<< >>)
    /\ InitAux

\* the token manager of the workers, with the short intervals of ConfFiles
InitW == InitT /\ conf.expiryInterval < DefaultExpiryInterval

\* a process that has not run initSync yet
InitCold ==
    /\ regfile \in CoreRegistryFiles
    /\ apireg = << >>
    /\ customCheckers = {}
    /\ chainManifests \in [decoders : DecoderManifests, encoders : EncoderManifests,
                            headermanagers : BootHeaderManifests,
                            securitycheckers : BootSecurityManifests]
    /\ decoders = << >> /\ encoders = << >> /\ headermanagers = << >> /\ securitycheckers = << >>
    /\ inflight = << >> /\ last = LastBase
    /\ now = 1 /\ conf = NoConf /\ gcDue = 0
    /\ \E appFile \in AppRegistryFiles, tokensStored \in BOOLEAN :
          /\ boot = NotBooted(appFile, tokensStored)
          /\ activeTokens \in (IF tokensStored THEN {<< >>, StoredTokens} ELSE {<< >>})
    /\ jtiNext = 1 /\ issued = {} /\ touched = << >> /\ tampered = {} /\ dead = {}
    /\ listeners = << >> /\ tlast = TLastBase
    /\ InitAux

\* Time that never stops.  Up to MaxTime the clock advances; from then on the
\* origin of the clock is moved instead: every lastAccess and the timer's due
\* time go back by one, which leaves every age as one more millisecond would
\* (an age that has reached MaxTime stays there; every expiryInterval of the
\* installation is shorter).
Earlier(time) == IF time > 0 THEN time - 1 ELSE 0

TimePasses ==
    /\ tlast.op = "none"
    /\ IF now < MaxTime
       THEN now' = now + 1 /\ UNCHANGED <<activeTokens, gcDue>>
       ELSE /\ now' = now
            /\ activeTokens' = [t \in DOMAIN activeTokens |-> Earlier(activeTokens[t])]
            /\ gcDue' = Earlier(gcDue)
    /\ tlast' = TLastBase
    /\ UNCHANGED <<conf, jtiNext, issued, touched, tampered, dead, listeners>>
    /\ UNCHANGED <<regVars, auxVars>>

NextBoot ==
    \/ \E file \in ConfFiles : InitSync(file)
    \/ \E file \in ConfFiles : TMInitSync(file)

SpecBoot == InitCold /\ [][NextBoot]_vars

NextRegistry ==
    \/ \E url \in Urls : GetAPI(url)
    \/ ListAPIs
    \/ \E url \in Urls, data \in Payloads : DecodeIncomingData(url, data)
    \/ \E url \in Urls, data \in Payloads : EncodeResponse(url, data)
    \/ \E url \in Urls, adds \in [1..Len(headermanagers) -> BOOLEAN], h \in CallerHeaders :
          InjectResponseHeaders(url, adds, h)
    \/ \E url \in Urls : \E behaviour \in [1..ChainLen(url) -> Behaviours] :
          CheckSecurity(url, behaviour)
    \/ \E name \in CustomNames : AddCustomSecurityChecker(name)
    \/ \E name \in CustomNames : RemoveCustomSecurityChecker(name)

\* the administration calls, with the lookups that show their effect
NextAdmin ==
    \/ \E url \in Urls : GetAPI(url)
    \/ ListAPIs
    \/ \E op \in {"addAPI", "editAPI"}, path \in Paths, e \in AdminEntries, app \in AppArgs :
          AddAPI(op, path, e, app)
    \/ \E path \in Paths, app \in AppArgs : DeleteAPI(path, app)
    \/ \E i \in 1..MaxInFlight, ok \in BOOLEAN : ReadFileDone(i, ok)
    \/ \E i \in 1..MaxInFlight, ok \in BOOLEAN : WriteFileDone(i, ok)

\* no call suspended at an await is about the path
PathFree(path) == \A i \in 1..Len(inflight) : inflight[i].path # path

\* administration calls that overlap: a call comes while the calls before it
\* wait for the file, each on a path of its own, and the file system fails
\* no read and no write
NextOverlap ==
    \/ \E op \in {"addAPI", "editAPI"}, path \in Paths, e \in AdminEntries :
          PathFree(path) /\ AddAPICall(op, path, e, AppModule)
    \/ \E path \in Paths : PathFree(path) /\ DeleteAPICall(path, AppModule)
    \/ \E i \in 1..Len(inflight) : ReadFileDone(i, TRUE)
    \/ \E i \in 1..Len(inflight) : WriteFileDone(i, TRUE)

\* administration calls one at a time, with reads and writes that may fail
NextPersist ==
    \/ \E path \in Paths, e \in AdminEntries :
          inflight = << >> /\ AddAPICall("addAPI", path, e, AppModule)
    \/ \E path \in Paths : inflight = << >> /\ DeleteAPICall(path, AppModule)
    \/ \E i \in 1..Len(inflight), ok \in BOOLEAN : ReadFileDone(i, ok)
    \/ \E i \in 1..Len(inflight), ok \in BOOLEAN : WriteFileDone(i, ok)

\* chain calls whose stages may be asynchronous
ChainOps == {"decodeIncomingData", "encodeResponse", "injectResponseHeaders", "checkSecurity"}
NextStages ==
    \/ \E op \in ChainOps, url \in Urls :
          \E kinds \in [1..Len(StagesOf(op, url)) -> StageKinds] : StartChain(op, url, kinds)
    \/ \E i \in 1..Len(stages.started) : StageSettles(i)

\* dead is history that one specification keeps (SpecLifecycle); the other
\* specifications leave it empty
KeepDead == UNCHANGED dead

\* what a step makes dead: the tokens that left the table (released while
\* live, or evicted by the sweep) and the token a validation rejected as expired
NoteDead ==
    dead' = dead \cup ((DOMAIN activeTokens) \ (DOMAIN activeTokens'))
                 \cup (IF tlast'.reason = R_Expired THEN {tlast'.token} ELSE {})

\* a request that presents token t to an entry that asks for any token
PlainEntry == [needsToken |-> <<"true">>, checkClaims |-> << >>]
PlainRequest == [sub |-> "user1"]
Presenting(t) == [pieces |-> 2, scheme |-> "Bearer", token |-> t]

\* the token manager with the tokens it issued: they are presented to open,
\* token and admin entries, refreshed, released, registered again and swept
NextTokens ==
    \/ Tick /\ KeepDead
    \/ Return /\ KeepDead
    \/ \E p \in JwtProperties : CreateSignedJWTToken(p) /\ KeepDead
    \/ \E e \in LifeEntries, t \in KnownTokens \ {GarbageToken} :
          TMCheckSecurity(e, PlainRequest, Presenting(t)) /\ KeepDead
    \/ \E h \in BearerHeaders(GarbageToken) \cup MalformedHeaders :
          TMCheckSecurity(PlainEntry, PlainRequest, h) /\ KeepDead
    \/ \E t \in KnownTokens, e \in DirectEntries, req \in Requests :
          CheckToken(t, e.needsToken, e.checkClaims, req) /\ KeepDead
    \/ \E t \in issued : AddToken(t) /\ KeepDead
    \/ \E t \in KnownTokens : ReleaseToken(t) /\ KeepDead
    \/ CleanTokens /\ KeepDead

\* checkHeaderToken on the headers a caller may hold, for tokens that are
\* live, expired, swept or were never issued
NextHeader ==
    \/ Tick /\ KeepDead
    \/ Return /\ KeepDead
    \/ \E p \in JwtProperties : CreateSignedJWTToken(p) /\ KeepDead
    \/ \E t \in KnownTokens : \E h \in BearerHeaders(t) \cup MalformedHeaders :
          CheckHeaderToken(h) /\ KeepDead
    \/ CleanTokens /\ KeepDead

\* the access decision: every kind of entry against every kind of header
NextAccess ==
    \/ Tick /\ KeepDead
    \/ Return /\ KeepDead
    \/ \E p \in JwtProperties : CreateSignedJWTToken(p) /\ KeepDead
    \/ \E e \in TokenEntries, req \in Requests, t \in KnownTokens :
          \E h \in BearerHeaders(t) \cup MalformedHeaders : TMCheckSecurity(e, req, h) /\ KeepDead
    \/ \E t \in KnownTokens, e \in DirectEntries, req \in Requests :
          CheckToken(t, e.needsToken, e.checkClaims, req) /\ KeepDead
    \/ CleanTokens /\ KeepDead

\* the token manager with tokens registered through addToken
NextForeign ==
    \/ Tick /\ KeepDead
    \/ Return /\ KeepDead
    \/ \E e \in TokenEntries, req \in Requests, t \in KnownTokens :
          \E h \in BearerHeaders(t) \cup MalformedHeaders : TMCheckSecurity(e, req, h) /\ KeepDead
    \/ \E t \in KnownTokens, e \in DirectEntries, req \in Requests :
          CheckToken(t, e.needsToken, e.checkClaims, req) /\ KeepDead
    \/ \E t \in ForeignTokens : AddToken(t) /\ KeepDead
    \/ \E t \in KnownTokens : ReleaseToken(t) /\ KeepDead
    \/ CleanTokens /\ KeepDead

\* validations of registered tokens by requests of either subject, so that
\* every reason a validation has to fail comes up
AnyRequests == [sub : Subs]
NextFrame ==
    \/ Tick /\ KeepDead
    \/ Return /\ KeepDead
    \/ \E e \in TokenEntries, req \in AnyRequests, t \in KnownTokens :
          \E h \in BearerHeaders(t) \cup MalformedHeaders : TMCheckSecurity(e, req, h) /\ KeepDead
    \/ \E t \in KnownTokens, e \in DirectEntries, req \in AnyRequests :
          CheckToken(t, e.needsToken, e.checkClaims, req) /\ KeepDead
    \/ \E t \in ForeignTokens : AddToken(t) /\ KeepDead
    \/ CleanTokens /\ KeepDead

\* the token manager with listeners registered
NextListeners ==
    \/ Tick /\ KeepDead
    \/ Return /\ KeepDead
    \/ \E l \in Listeners : AddListener(l) /\ KeepDead
    \/ \E l \in Listeners : RemoveListener(l) /\ KeepDead
    \/ \E p \in JwtProperties : CreateSignedJWTToken(p) /\ KeepDead
    \/ \E d \in Directives \cup {NoDirective}, result \in BOOLEAN, h \in ResponseHeaders :
          TMInjectResponseHeaders(d, result, h) /\ KeepDead
    \/ \E t \in issued : TMCheckSecurity(PlainEntry, PlainRequest, Presenting(t)) /\ KeepDead
    \/ CleanTokens /\ KeepDead

\* the directives that differ in what gates the issue
IssueDirectives ==
    {NoDirective} \cup [present : {TRUE}, flag : {NoKey},
                        tokenflag : {NoKey, Literal("true"), Literal("false")}]

\* tokens issued through injectResponseHeaders, with listeners registered
NextIssue ==
    \/ Tick /\ KeepDead
    \/ Return /\ KeepDead
    \/ \E l \in Listeners : AddListener(l) /\ KeepDead
    \/ \E l \in Listeners : RemoveListener(l) /\ KeepDead
    \/ \E d \in IssueDirectives, result \in BOOLEAN, h \in ResponseHeaders :
          TMInjectResponseHeaders(d, result, h) /\ KeepDead
    \/ \E t \in issued : TMCheckSecurity(PlainEntry, PlainRequest, Presenting(t)) /\ KeepDead
    \/ CleanTokens /\ KeepDead

\* the life of the issued tokens: issue, present, release, register again, sweep
NextLifecycle ==
    \/ Tick /\ NoteDead
    \/ Return /\ NoteDead
    \/ \E p \in JwtProperties : CreateSignedJWTToken(p) /\ NoteDead
    \/ \E t \in issued : TMCheckSecurity(PlainEntry, PlainRequest, Presenting(t)) /\ NoteDead
    \/ \E t \in issued : CheckToken(t, << >>, << >>, PlainRequest) /\ NoteDead
    \/ \E t \in issued : AddToken(t) /\ NoteDead
    \/ \E t \in issued : ReleaseToken(t) /\ NoteDead
    \/ CleanTokens /\ NoteDead

\* two workers over the shared table of tokens: w1 issues, registers and
\* validates tokens, w2 releases them and runs the sweep of its timer; the
\* clock goes on between the calls (a call's get and set are in the same
\* millisecond)
Sweeper == "w2"
Server == "w1"
ShortLived == [hasExp |-> TRUE, expiryInterval |-> 1, sub |-> "admin"]
NextWorkers ==
    \/ (\A w \in Workers : Idle(w)) /\ Tick /\ KeepDead
    \/ WCreateGet(Server, ShortLived)
    \/ WAddTokenGet(Server, TwoSegmentToken)
    \/ \E t \in issued \cup {TwoSegmentToken} :
          WCheckTokenGet(Server, t, PlainEntry.needsToken, PlainEntry.checkClaims, PlainRequest)
    \/ WRefreshGet(Server)
    \/ WSweepGet(Sweeper)
    \/ \E w \in Workers : WSet(w)

\* the same, with tokens of both kinds and with tokens released
NextRaces ==
    \/ (\A w \in Workers : Idle(w)) /\ Tick /\ KeepDead
    \/ \E p \in JwtProperties : WCreateGet(Server, p)
    \/ \E t \in issued :
          WCheckTokenGet(Server, t, PlainEntry.needsToken, PlainEntry.checkClaims, PlainRequest)
    \/ WRefreshGet(Server)
    \/ \E t \in issued : WReleaseGet(Sweeper, t)
    \/ WSweepGet(Sweeper)
    \/ \E w \in Workers : WSet(w)

\* the four chains at work
NextChains ==
    \/ \E url \in Urls, data \in Payloads : DecodeIncomingData(url, data)
    \/ \E url \in Urls, data \in Payloads : EncodeResponse(url, data)
    \/ \E url \in Urls, adds \in [1..Len(headermanagers) -> BOOLEAN], h \in CallerHeaders :
          InjectResponseHeaders(url, adds, h)
    \/ \E url \in Urls : \E behaviour \in [1..ChainLen(url) -> Behaviours] :
          CheckSecurity(url, behaviour)

SpecChains == InitC /\ [][NextChains]_vars
SpecStages == InitR /\ [][NextStages]_vars
SpecWorkers == InitW /\ [][NextWorkers]_vars
SpecRaces == InitW /\ [][NextRaces]_vars

\* the sweep timer at work on tokens registered through addToken
NextSweep ==
    \/ TimePasses
    \/ Return /\ KeepDead
    \/ \E t \in ForeignTokens : AddToken(t) /\ KeepDead
    \/ CleanTokens /\ KeepDead

\* time passes and the timer of setInterval fires, whatever else is called
SpecSweep ==
    /\ InitW /\ [][NextSweep]_vars
    /\ SF_vars(TimePasses) /\ SF_vars(CleanTokens /\ KeepDead) /\ WF_vars(Return /\ KeepDead)
SpecRegistry == InitR /\ [][NextRegistry]_vars
SpecAdmin == InitR /\ [][NextAdmin]_vars
SpecOverlap == InitP /\ [][NextOverlap]_vars
SpecPersist == InitP /\ [][NextPersist]_vars
SpecTokens == InitT /\ [][NextTokens]_vars
SpecAccess == InitT /\ [][NextAccess]_vars
SpecForeign == InitT /\ [][NextForeign]_vars
SpecFrame == InitT /\ [][NextFrame]_vars
SpecHeader == InitT /\ [][NextHeader]_vars
SpecListeners == InitT /\ [][NextListeners]_vars
SpecIssue == InitT /\ [][NextIssue]_vars
SpecLifecycle == InitT /\ [][NextLifecycle]_vars

----------------------------------------------------------------------------
(* Claims about the registry.                                               *)

UrlOf(path) == [pathname |-> path, search |-> "?x=1"]

\* C1 (as claimed): once addAPI(p, e, a) or editAPI(p, e, a) has been called
\* with an application name a, resolve(p) returns a target path derived from e
\* and listAPIs() contains p.
C1_AddedIsResolvable ==
    (last.op \in {"addAPI", "editAPI"} /\ last.app \in AppNames)
    => /\ getAPI(apireg, UrlOf(last.path)).ret = "value"
       /\ getAPI(apireg, UrlOf(last.path)).retPath
            \in {PathResolve(last.entry.target), PathResolve(JoinRoot(APPROOT, last.entry.target))}
       /\ last.path \in listAPIs(apireg)

\* C2 (as claimed): once deleteAPI(p, a) has been called with an application
\* name a, resolve(p) returns undefined and listAPIs() does not contain p.
C2_DeletedIsGone ==
    (last.op = "deleteAPI" /\ last.app \in AppNames)
    => /\ getAPI(apireg, UrlOf(last.path)).ret = "undefined"
       /\ last.path \notin listAPIs(apireg)

\* C3 (as claimed): checkSecurity on a path that has no entry returns false and
\* leaves the caller's reason object with code 403 and the reason "API endpoint
\* missing".
C3_MissingEndpointReason ==
    (last.op = "checkSecurity" /\ ~HasEntry(apireg, last.path))
    => /\ last.ret = "false"
       /\ last.reasonOut.code = 403
       /\ last.reasonOut.reason = "API endpoint missing"

\* C4: on a path that has no entry, decode and encode return false and invoke
\* no decoder or encoder, and injectResponseHeaders invokes no header manager
\* and leaves responseHeaders as they were.
C4_UnregisteredPipeline ==
    ~HasEntry(apireg, last.path)
    => /\ last.op \in {"decodeIncomingData", "encodeResponse"}
            => (last.ret = "false" /\ last.invoked = <<>>)
       /\ last.op = "injectResponseHeaders"
            => (last.invoked = <<>> /\ last.headersOut = last.headersIn)

C4_Witness ==
    /\ last.op = "injectResponseHeaders"
    /\ ~HasEntry(apireg, last.path)
    /\ headermanagers # <<>>
    /\ last.headersIn # {}
    /\ last.headersOut = last.headersIn

\* the positions of last.chain that hold a checker: the core checkers, and the
\* customSecurity names that the custom-checker registry has
IsChecker(i) == i <= Len(securitycheckers) \/ last.chain[i] \in customCheckers
Checkers == {i \in 1..Len(last.chain) : IsChecker(i)}
\* the positions of the checkers that come before position i
Before(i) == {j \in Checkers : j < i}

\* C5: checkSecurity on a registered path invokes the checkers in chain order
\* (the core checkers in priority order, then the customSecurity checkers in
\* listed order); at the first checker that rejects it returns false and
\* invokes none after it; it returns true only if every checker of the chain
\* was invoked and passed.
C5_ChainShortCircuit ==
    (last.op = "checkSecurity" /\ HasEntry(apireg, last.path))
    => /\ last.chain = securitycheckers \o apireg[last.path].customSecurity
       \* the invoked checkers are the first checkers of the chain, in its order
       /\ \E n \in 0..Cardinality(Checkers) :
             /\ Len(last.invoked) = n
             /\ \A i \in Checkers :
                   /\ Cardinality(Before(i)) < n
                        => last.invoked[Cardinality(Before(i)) + 1] = last.chain[i]
                   \* all but the last invoked one passed
                   /\ Cardinality(Before(i)) + 1 < n => last.outcomes[i] = "pass"
       \* the first rejection ends the call with false, nothing after it invoked
       /\ \A i \in Checkers :
             (last.outcomes[i] = "reject" /\ \A j \in Before(i) : last.outcomes[j] = "pass")
             => (last.ret = "false" /\ Len(last.invoked) = Cardinality(Before(i)) + 1)
       /\ last.ret = "true"
             => /\ Len(last.invoked) = Cardinality(Checkers)
                /\ \A i \in Checkers : last.outcomes[i] = "pass"

C5_Witness ==
    /\ last.op = "checkSecurity"
    /\ HasEntry(apireg, last.path)
    /\ Cardinality(Checkers) >= 3
    /\ \E i \in Checkers :
          /\ Cardinality(Before(i)) = 1
          /\ last.outcomes[i] = "reject"
          /\ \A j \in Checkers \ {i} : last.outcomes[j] = "pass"
    /\ last.ret = "false"
    /\ Len(last.invoked) = 2

\* C6 (as claimed): when the entry's customSecurity names a checker that the
\* custom-checker registry does not have, checkSecurity returns false, also
\* when every checker that exists passes.
C6_MissingCheckerFailsClosed ==
    (/\ last.op = "checkSecurity"
     /\ HasEntry(apireg, last.path)
     /\ \E i \in 1..Len(last.chain) : ~IsChecker(i)
     /\ \A i \in Checkers : last.outcomes[i] = "pass")
    => last.ret = "false"

----------------------------------------------------------------------------
(* Claims about the token manager.  tlast is the call that has just         *)
(* returned: Tick clears it, so that now is the time of the call.           *)

\* the call validated the token of its header, or of its argument
Validation ==
    \/ tlast.op = "checkToken"
    \/ /\ tlast.op = "checkSecurity"
       /\ TokenNeeded(tlast.needsToken)
       /\ tlast.headers \in BearerHeaders(tlast.token)

\* C7 (as claimed): whenever a validation of token t returns true, t has three
\* dot-separated segments and parseable claims, t is in the live-token table,
\* and now - lastAccess(t) <= claims.expiryInterval for the lastAccess read
\* before the refresh; tokens registered through addToken included.
C7_ValidTokenInvariant ==
    (Validation /\ tlast.ret = "true")
    => /\ tlast.token.nseg = 3
       /\ ClaimsParseable(tlast.token)
       /\ tlast.lastAccess > 0
       /\ tlast.token.hasExp
       /\ now - tlast.lastAccess <= tlast.token.expiryInterval

\* a security check with needsToken = "true" and header "Bearer t"
PlainCheckOf(t) ==
    /\ tlast.op = "checkSecurity"
    /\ tlast.needsToken = <<"true">>
    /\ tlast.checkClaims = <<>>
    /\ tlast.headers = [pieces |-> 2, scheme |-> "Bearer", token |-> t]

Unused(t) == t \in issued /\ t \notin tampered /\ TouchOf(t) = t.iatms

\* C9 (as claimed): a security check of an issued token t that was not accessed
\* since, made more than expiryInterval after its issuance, returns false with
\* code 403 and a reason containing "expired", whether or not a sweep has run.
C9_ExpiredReason ==
    \A t \in issued :
        (/\ tlast.op = "checkSecurity" /\ Validation /\ tlast.token = t
         /\ Unused(t) /\ now - t.iatms > t.expiryInterval)
        => (tlast.ret = "false" /\ tlast.code = 403 /\ tlast.reason = R_Expired)

\* C9 (amended): such a check returns false with code 403; its reason is the
\* "expired" one while t is still in the table, and the "no last access found"
\* one when a sweep has evicted t before the check.
C9_ExpiredOrEvicted ==
    \A t \in issued :
        (/\ tlast.op = "checkSecurity" /\ Validation /\ tlast.token = t
         /\ Unused(t) /\ now - t.iatms > t.expiryInterval)
        => /\ tlast.ret = "false" /\ tlast.code = 403
           /\ tlast.reason = IF tlast.lastAccess > 0 THEN R_Expired ELSE R_NotFound
           /\ tlast.lastAccess > 0 => tlast.lastAccess = t.iatms

C9_Witness ==
    \E t \in issued :
        /\ tlast.op = "checkSecurity" /\ Validation /\ tlast.token = t
        /\ Unused(t) /\ now - t.iatms > t.expiryInterval
        /\ tlast.lastAccess = 0
        /\ tlast.reason = R_NotFound

\* the validation is one that the entry's directives allow for the token
ValidAccess ==
    /\ Validation
    /\ tlast.needsToken = <<>> \/ IsWord(tlast.needsToken, "true")
          \/ Includes(tlast.needsToken, tlast.token.sub)
    /\ \A i \in 1..Len(tlast.checkClaims) :
          Claim(tlast.token, tlast.checkClaims[i]) = ReqField([sub |-> tlast.reqSub], tlast.checkClaims[i])

\* C10: a valid access of an issued token that follows the previous successful
\* access (or the issuance) by less than expiryInterval returns true, however
\* long ago the token was issued and whatever sweeps ran; one that follows it
\* by more than expiryInterval returns false.
C10_SlidingExpiry ==
    \A t \in issued :
        (ValidAccess /\ tlast.token = t /\ t \notin tampered)
        => /\ now - tlast.prevTouch < t.expiryInterval => tlast.ret = "true"
           /\ now - tlast.prevTouch > t.expiryInterval => tlast.ret = "false"

C10_Witness ==
    \E t \in issued :
        /\ ValidAccess /\ tlast.token = t /\ t \notin tampered
        /\ now - tlast.prevTouch < t.expiryInterval
        /\ now - t.iatms > t.expiryInterval
        /\ tlast.ret = "true"

----------------------------------------------------------------------------
(* Claims about release, the token life cycle and the sweep.                *)

\* C11: releaseToken(t) leaves t out of the live-token table and every other
\* entry as it was (so a release of a token that is not in the table changes
\* nothing), and a validation of t that follows the release directly returns
\* false with code 403 and the reason "no last access found".
C11_ReleaseThenNotFound ==
    [][ /\ tlast'.op = "releaseToken"
           => /\ tlast'.token \notin DOMAIN activeTokens'
              /\ DOMAIN activeTokens' = (DOMAIN activeTokens) \ {tlast'.token}
              /\ \A k \in DOMAIN activeTokens' : activeTokens'[k] = activeTokens[k]
        /\ (tlast.op = "releaseToken" /\ Validation' /\ tlast'.token = tlast.token)
           => /\ tlast'.ret = "false" /\ tlast'.code = 403
              /\ tlast'.reason = R_NotFound ]_vars

\* a token is validated at the instant it was issued and is not in the table:
\* it was live and has been released
C11_Witness ==
    /\ Validation /\ tlast.token \in issued /\ tlast.token.iatms = now
    /\ tlast.lastAccess = 0
    /\ tlast.ret = "false" /\ tlast.code = 403 /\ tlast.reason = R_NotFound

\* C12 (as claimed): a token that was rejected as expired, evicted by a sweep
\* or released is never validated true afterwards, whatever public operations
\* are called in between.
C12_NoWayBack ==
    (Validation /\ tlast.token \in dead) => tlast.ret # "true"

\* the entry of t is older than t's own claims.expiryInterval
OlderThanOwnInterval(t, lastAccess) ==
    ClaimsParseable(t) /\ t.hasExp /\ now - lastAccess > t.expiryInterval

\* C13 (as claimed): a sweep removes every entry that is older than its own
\* claims.expiryInterval and keeps the others as they were, and for each
\* evicted token each registration of a listener gets exactly one
\* notification, whose event name is "token_expired".
C13_SweepEvictsAndNotifies ==
    tlast.op = "_cleanTokens"
    => /\ \A t \in DOMAIN tlast.before :
             IF OlderThanOwnInterval(t, tlast.before[t])
             THEN /\ t \notin DOMAIN activeTokens
                  /\ \A i \in 1..Len(listeners) :
                        /\ Cardinality({e \in tlast.events : e.pos = i /\ e.token = t}) = 1
                        /\ \A e \in tlast.events :
                              (e.pos = i /\ e.token = t) => e.event = "token_expired"
             ELSE t \in DOMAIN activeTokens /\ activeTokens[t] = tlast.before[t]
       /\ DOMAIN activeTokens \subseteq DOMAIN tlast.before

----------------------------------------------------------------------------
(* Claims about what a validation compares.                                 *)

\* a security check that presents, where a token is asked for, a token that
\* is in the table, has parseable claims and is within its interval
LiveUnexpiredCheck ==
    /\ tlast.op = "checkSecurity"
    /\ tlast.headers \in BearerHeaders(tlast.token)
    /\ tlast.lastAccess > 0
    /\ ClaimsParseable(tlast.token)
    /\ ~(tlast.token.hasExp /\ now - tlast.lastAccess > tlast.token.expiryInterval)

InList(list, value) == \E i \in 1..Len(list) : list[i] = value

AllowListHolds ==
    /\ tlast.ret = "true" => InList(tlast.needsToken, tlast.token.sub)
    /\ ~InList(tlast.needsToken, tlast.token.sub)
       => /\ tlast.ret = "false" /\ tlast.code = 403
          /\ LastAccessOf(activeTokens, tlast.token) = tlast.lastAccess

\* C14 (as claimed): when needsToken is neither "true" nor "false", a live,
\* unexpired token passes only if its sub is one of the comma-separated values
\* of needsToken; otherwise the check returns false with code 403 and the
\* token's lastAccess stays as it was.
C14_AllowListLiteral ==
    (LiveUnexpiredCheck /\ tlast.needsToken \notin { << >>, <<"true">>, <<"false">> })
    => AllowListHolds

\* C14 (amended): the same, for a needsToken that is neither "true" nor
\* "false" in any letter case.
C14_AllowList ==
    (LiveUnexpiredCheck /\ tlast.needsToken # << >>
        /\ ~IsWord(tlast.needsToken, "true") /\ ~IsWord(tlast.needsToken, "false"))
    => AllowListHolds

C14_Witness ==
    /\ LiveUnexpiredCheck /\ tlast.needsToken = <<"admin">>
    /\ tlast.token \in issued /\ tlast.token.sub = "user1"
    /\ now > tlast.lastAccess
    /\ tlast.ret = "false" /\ tlast.code = 403
    /\ activeTokens[tlast.token] = tlast.lastAccess

\* some claim named by checkClaims differs from the request's field of that name
ClaimsMismatch ==
    \E i \in 1..Len(tlast.checkClaims) :
        Claim(tlast.token, tlast.checkClaims[i])
            # ReqField([sub |-> tlast.reqSub], tlast.checkClaims[i])

C16_NoTokenOrMalformed ==
    [][ tlast'.op = "checkSecurity"
        => /\ (tlast'.needsToken = << >> \/ IsWord(tlast'.needsToken, "false"))
              => tlast'.ret = "true" /\ activeTokens' = activeTokens
           /\ (/\ TokenNeeded(tlast'.needsToken)
               /\ ~(tlast'.headers.pieces = 2 /\ ToLowerCase(tlast'.headers.scheme) = "bearer"))
              => /\ tlast'.ret = "false" /\ tlast'.code = 403
                 /\ tlast'.reason = R_Malformed
                 /\ activeTokens' = activeTokens ]_vars

C16_Witness ==
    /\ tlast.op = "checkSecurity" /\ TokenNeeded(tlast.needsToken)
    /\ tlast.headers.pieces = 2 /\ tlast.headers.scheme = "Basic"
    /\ DOMAIN activeTokens # {}
    /\ tlast.ret = "false" /\ tlast.code = 403 /\ tlast.reason = R_Malformed

----------------------------------------------------------------------------
(* Claims about the order of the chains.                                    *)

\* where the manifests ms list the extension n: source, key position, priority
SourceOf(ms, n) == CHOOSE i \in 1..Len(ms) : \E j \in 1..Len(ms[i]) : ms[i][j].name = n
KeyOf(ms, n) == CHOOSE j \in 1..Len(ms[SourceOf(ms, n)]) : ms[SourceOf(ms, n)][j].name = n
PriorityOf(ms, n) == ms[SourceOf(ms, n)][KeyOf(ms, n)].priority
NamesOf(ms) == UNION { { ms[i][j].name : j \in 1..Len(ms[i]) } : i \in 1..Len(ms) }

\* a runs before b: lower priority first; of equal priority, the one found
\* first (core manifest before the application's, key order within a manifest)
RunsBefore(ms, a, b) ==
    \/ PriorityOf(ms, a) < PriorityOf(ms, b)
    \/ /\ PriorityOf(ms, a) = PriorityOf(ms, b)
       /\ \/ SourceOf(ms, a) < SourceOf(ms, b)
          \/ SourceOf(ms, a) = SourceOf(ms, b) /\ KeyOf(ms, a) < KeyOf(ms, b)

InOrder(ms, run) ==
    \A i \in 1..Len(run), j \in 1..Len(run) : i < j => RunsBefore(ms, run[i], run[j])

RunsAll(ms, run) ==
    { run[i] : i \in 1..Len(run) } = NamesOf(ms) /\ Len(run) = Cardinality(NamesOf(ms))

----------------------------------------------------------------------------
(* Claims about the tokens injectResponseHeaders issues.                    *)

\* the token manager's injectResponseHeaders on an entry that declares addsToken
InjectWithDirective == tlast.op = "injectResponseHeaders" /\ tlast.directive.present

\* nothing was issued: no header set, the table as it was
NothingIssued ==
    ~tlast.made /\ tlast.respOut = tlast.respIn /\ activeTokens = tlast.before

\* C18 (as claimed): with addsToken declared, no token is issued and no header
\* set when the directive has a key flag whose rendered value parses to
\* boolean false, or has no key flag and response.result is falsy; in every
\* other case a token is issued.
C18_FlagGate ==
    InjectWithDirective
    => LET flag == Rendered("flag", tlast.directive.flag)
           withheld == \/ tlast.directive.flag.has /\ ~ParseBoolean(flag)
                       \/ ~tlast.directive.flag.has /\ ~tlast.result
       IN IF withheld THEN NothingIssued ELSE tlast.made

\* the step is an injectResponseHeaders that leaves everything alone when the
\* entry has no addsToken, and that sets the three headers to the token it
\* issues and has it in the table
InjectStepHolds ==
    tlast'.op = "injectResponseHeaders"
    => /\ ~tlast'.directive.present
          => tlast'.respOut = tlast'.respIn /\ activeTokens' = activeTokens
       /\ tlast'.made
          => /\ tlast'.respOut.access_token = tlast'.token
             /\ tlast'.respOut.token_type = "bearer"
             /\ tlast'.respOut.authorization \in BearerHeaders(tlast'.token)
             /\ tlast'.token \in DOMAIN activeTokens'

\* the step is a security check with needsToken = "true" of the token that the
\* injectResponseHeaders before it has issued, and it passes
CheckAfterInjectPasses ==
    (/\ tlast.op = "injectResponseHeaders" /\ tlast.made
     /\ tlast'.op = "checkSecurity" /\ tlast'.needsToken = <<"true">>
     /\ tlast'.headers \in BearerHeaders(tlast.token))
    => tlast'.ret = "true"

----------------------------------------------------------------------------
(* Claims about a checker that throws.                                      *)

\* C20 (as claimed): when a checker of the chain throws (or its promise
\* rejects) during the registry's checkSecurity, the call resolves to false
\* with a reason and a code in the caller's reason object; the exception does
\* not reach the caller.
C20_ThrowIsFailedCheck ==
    (/\ last.op = "checkSecurity" /\ HasEntry(apireg, last.path)
     /\ \E i \in Checkers :
           last.outcomes[i] = "throw" /\ \A j \in Before(i) : last.outcomes[j] = "pass")
    => /\ last.ret = "false"
       /\ last.reasonOut.reason # "" /\ last.reasonOut.code # 0

----------------------------------------------------------------------------
(* Claims about stages that are asynchronous.                               *)

\* C21 (as claimed): in every chain, a stage is started only when every stage
\* before it has finished, also when stages are asynchronous; in decode and
\* encode a stage receives the completed result of the stage before it.
C21_StagesInTurn ==
    \A i \in 1..Len(stages.started) :
        stages.unfinishedAtStart[i] = {} /\ stages.received[i] = "result"

----------------------------------------------------------------------------
(* Claims about workers that share the table of tokens.                     *)

\* worker w makes the get of a validation in this step
ValidationGets(w) ==
    Idle(w) /\ workers'[w] # workers[w] /\ workers'[w].op = "checkToken"

\* C22: a validation never gets the table while a sweep of another worker has
\* set a part of what it sets: the table it decides on is whole, from before
\* the sweep's set or from after it, and its result is the result of
\* checkToken on that table.
C22_AtomicTable ==
    [][ \A w \in Workers :
          ValidationGets(w)
          => /\ ~SweepHalfWritten(w)
             /\ workers'[w].ret =
                  checkToken(activeTokens, workers'[w].token, PlainEntry.needsToken,
                             PlainEntry.checkClaims, PlainRequest, now).ret
      ]_vars

\* a validation of a token got the table while the sweep that evicts the
\* token had got it and not yet set it: the token was still there, expired
C22_Witness ==
    /\ workers[Server].op = "checkToken" /\ workers[Server].midSweep
    /\ workers[Server].ret = "false"
    /\ workers[Sweeper].op = "_cleanTokens" /\ workers[Sweeper].pc = "set"
    /\ workers[Server].token \in Evicted(workers[Sweeper].seen, now)
    /\ workers[Server].token \in DOMAIN activeTokens

\* C23 (as claimed): when a createSignedJWTToken or a successful validation
\* of one worker and a sweep of another have both completed, the token just
\* issued is in the table and the token just validated has the time of the
\* validation as its lastAccess.
C23_NothingLost ==
    ((\A w \in Workers : Idle(w)) /\ workers[Sweeper].op = "_cleanTokens")
    => LET s == workers[Server]
       IN /\ (s.op = "createSignedJWTToken" /\ s.token.iatms = now)
             => s.token \in DOMAIN activeTokens
          /\ (s.op = "checkToken" /\ s.ret = "true" /\ s.at = now)
             => s.token \in DOMAIN activeTokens /\ activeTokens[s.token] = now

\* C24 (as claimed): when releaseToken(t) of one worker and a validation of t
\* of another have both completed, t is not in the table.
C24_ReleasedStaysOut ==
    (/\ \A w \in Workers : Idle(w)
     /\ workers[Sweeper].op = "releaseToken" /\ workers[Server].op = "checkToken"
     /\ workers[Server].token = workers[Sweeper].token)
    => workers[Sweeper].token \notin DOMAIN activeTokens

----------------------------------------------------------------------------
(* Claims about addAPI and deleteAPI and the registry file.                 *)

\* the file and the table say the same of the path: both have no entry for
\* it, or the table has the file's entry, as initSync rooted it or as addAPI
\* put it
SameInFileAndTable(path) ==
    /\ path \in DOMAIN regfile <=> path \in DOMAIN apireg
    /\ path \in DOMAIN regfile
       => apireg[path] \in {regfile[path], Rooted(regfile[path], ROOTDIR)}

\* C25 (as claimed): when the addAPI and deleteAPI calls that overlapped, each
\* on a path of its own, have all completed, the registry file has every
\* change the table has.
C25_NoLostUpdate ==
    inflight = << >> => \A path \in Paths : SameInFileAndTable(path)

\* the table has the change the call makes to it
Mutated(reg, op, path, entry) ==
    IF op = "deleteAPI" THEN path \notin DOMAIN reg
    ELSE path \in DOMAIN reg /\ reg[path] = entry

\* the call that returned last was rejected because its read or its write of
\* the file failed
FileFailed ==
    last.ret = "rejected" /\ last.app = AppModule /\ last.op \in {"addAPI", "editAPI", "deleteAPI"}

\* C26: while addAPI or deleteAPI waits for the read or the write of the file
\* the table in the store already has the change and the step that made the
\* call left the file alone; when the read or the write fails the call is
\* rejected, and the table keeps the change while the file stays as it was.
C26_MutateThenPersist ==
    [][ /\ Len(inflight') > Len(inflight)
           => /\ regfile' = regfile
              /\ inflight'[Len(inflight')].stage = "readFile"
        /\ \A i \in 1..Len(inflight') :
              Mutated(apireg', inflight'[i].op, inflight'[i].path, inflight'[i].entry)
        /\ Len(inflight') < Len(inflight)
           => \/ FileFailed'
              \/ /\ last'.ret = "resolved" /\ inflight[1].stage = "writeFile"
                 /\ regfile' = inflight[1].regFileObj
        /\ (Len(inflight') < Len(inflight) /\ FileFailed')
           => /\ apireg' = apireg /\ regfile' = regfile
              /\ Mutated(apireg', last'.op, last'.path, last'.entry)
      ]_vars

\* addAPI was rejected for the file: the table has the entry, the file has not
C26_Witness ==
    /\ FileFailed /\ last.op = "addAPI" /\ inflight = << >>
    /\ last.path \in DOMAIN apireg /\ apireg[last.path] = last.entry
    /\ last.path \notin DOMAIN regfile

----------------------------------------------------------------------------
(* Claims about initSync.                                                   *)

\* the step is a run of the registry's initSync
InitSyncRuns == boot'.runs = boot.runs + 1

\* C27 (as claimed): a run of initSync that finds a table in the store does
\* not read the core registry file and leaves the target of every entry of
\* the table as it was.
C27_HotRestartKeepsTable ==
    [][ (InitSyncRuns /\ boot.stored)
        => /\ ~boot'.readCore
           /\ \A k \in DOMAIN apireg :
                 k \in DOMAIN apireg' /\ apireg'[k].target = apireg[k].target
      ]_vars

\* the groups of hooks in the order claimed
HookGroups == <<"decoders", "securitycheckers", "headermanagers", "encoders">>
GroupRank(chainName) == CHOOSE r \in 1..Len(HookGroups) : HookGroups[r] = chainName
ChainNamed(chainName) ==
    CASE chainName = "decoders" -> decoders
      [] chainName = "securitycheckers" -> securitycheckers
      [] chainName = "headermanagers" -> headermanagers
      [] chainName = "encoders" -> encoders
PlaceIn(chain, m) == CHOOSE i \in 1..Len(chain) : chain[i] = m

\* C28: the hook calls of a run of initSync are the initSync of every loaded
\* module that has one, once for each chain it is loaded in, decoders before
\* security checkers before header managers before encoders and each group
\* in the order of its chain, and every call gets the merged table, which
\* the store holds by then.
C28_HookOrder ==
    boot.runs > 0
    => LET log == boot.hookLog IN
       /\ \A i \in 1..Len(log) : \A j \in 1..Len(log) :
             i < j => \/ GroupRank(log[i].chain) < GroupRank(log[j].chain)
                      \/ /\ log[i].chain = log[j].chain
                         /\ PlaceIn(ChainNamed(log[i].chain), log[i].module)
                              < PlaceIn(ChainNamed(log[j].chain), log[j].module)
       /\ \A r \in 1..Len(HookGroups) :
             \A k \in 1..Len(ChainNamed(HookGroups[r])) :
                LET m == ChainNamed(HookGroups[r])[k] IN
                m \in HookModules
                <=> \E i \in 1..Len(log) : log[i].chain = HookGroups[r] /\ log[i].module = m
       /\ \A i \in 1..Len(log) :
             /\ log[i].table = apireg /\ log[i].store = apireg
             /\ boot.runs = 1 => log[i].table = InitSyncTable(regfile, boot.appFile)

\* a run called a hook of each of the four groups, the token manager's twice,
\* with a table merged from the core registry and the application's overlay
C28_Witness ==
    /\ boot.runs = 1 /\ Len(boot.hookLog) = 5
    /\ {boot.hookLog[i].chain : i \in 1..Len(boot.hookLog)} = {HookGroups[r] : r \in 1..Len(HookGroups)}
    /\ boot.appFile # << >> /\ DOMAIN regfile = {"/p1"}
    /\ DOMAIN boot.hookLog[1].table = {"/p1", "/p2"}

\* the step makes calls of the token manager's initSync, by the registry's
\* hooks or directly
TMInitSyncCalled == boot'.tmCalls > boot.tmCalls

\* C29: however often the token manager's initSync has been called, one
\* timer of _cleanTokens is set; the calls after the first leave the conf
\* and the table of tokens as they are; the first call leaves a table that
\* the store holds as it is and makes an empty one if the store holds none.
C29_InitOnce ==
    [][ TMInitSyncCalled
        => /\ boot'.alreadyInit /\ boot'.timers = 1 /\ boot'.tokensStored
           /\ boot.alreadyInit
              => conf' = conf /\ activeTokens' = activeTokens /\ gcDue' = gcDue
           /\ ~boot.alreadyInit
              => /\ activeTokens' = (IF boot.tokensStored THEN activeTokens ELSE << >>)
                 /\ \E file \in ConfFiles : conf' = LoadConf(file)
      ]_vars

\* the registry's hooks called initSync for two chains and it was called
\* again afterwards, with a table of another worker in the store from the
\* start: one timer, and the table still has that worker's token
C29_Witness ==
    /\ boot.runs > 0 /\ Len(SelectSeq(boot.hookLog, LAMBDA c : c.module = TM)) > 1
    /\ boot.tmCalls > Len(SelectSeq(boot.hookLog, LAMBDA c : c.module = TM))
    /\ boot.timers = 1 /\ activeTokens = StoredTokens

----------------------------------------------------------------------------
(* Claims about the sweep in the long run.                                  *)

\* addToken has just been called on the token
Accessed(t) == tlast.op = "addToken" /\ tlast.token = t

\* with claims that parse and name an expiryInterval a registered token is
\* swept in the end, unless it is registered again
NumericIsSwept ==
    \A t \in {u \in ForeignTokens : ClaimsParseable(u) /\ u.hasExp} :
        (t \in DOMAIN activeTokens) ~> (t \notin DOMAIN activeTokens \/ Accessed(t))

\* C30 (as claimed): an entry of the table, whatever its claims, is removed
\* in the end unless it is accessed again.
C30_EveryEntrySwept ==
    \A t \in ForeignTokens :
        (t \in DOMAIN activeTokens) ~> (t \notin DOMAIN activeTokens \/ Accessed(t))

----------------------------------------------------------------------------
(* Claims about what a validation does to the table, and checkHeaderToken.  *)

\* the step is a call of checkSecurity or checkToken of the token manager
Validates == tlast' # tlast /\ tlast'.op \in {"checkSecurity", "checkToken"}

\* the call that returns in the step came as far as a token: checkToken, or
\* checkSecurity of an entry that needs one
ValidatesToken ==
    Validates /\ (tlast'.op = "checkToken" \/ TokenNeeded(tlast'.needsToken))

\* C31: a validation that returns false leaves the table of tokens as it
\* was; one that returns true for a token sets that token's lastAccess to
\* the current time and leaves every other entry as it was; nothing else a
\* validation does changes the table.
C31_ValidationFrame ==
    [][ Validates
        => /\ tlast'.ret = "false" => activeTokens' = activeTokens
           /\ (tlast'.ret = "true" /\ ValidatesToken)
              => /\ tlast'.token \in DOMAIN activeTokens
                 /\ activeTokens' = [activeTokens EXCEPT ![tlast'.token] = now]
           /\ ~ValidatesToken => activeTokens' = activeTokens
      ]_vars

\* a validation failed on its last test, the claims check, for a token that
\* is live and not expired, with another token in the table: the token has
\* the lastAccess it had
C31_Witness ==
    /\ tlast.op = "checkSecurity" /\ tlast.ret = "false" /\ tlast.reason = R_Claims
    /\ tlast.token \in DOMAIN activeTokens
    /\ activeTokens[tlast.token] = tlast.lastAccess /\ tlast.lastAccess < now
    /\ DOMAIN activeTokens # {tlast.token}

\* C32 (as claimed): checkHeaderToken(headers) does not throw and returns
\* what checkSecurity returns for an entry with needsToken=true and the
\* same headers on the same table: true exactly when the headers are
\* "Bearer t" for a token t that is live and not expired.
C32_HeaderTokenAsSecurityCheck ==
    tlast.op = "checkHeaderToken"
    => /\ tlast.ret # "threw"
       /\ tlast.ret = tmCheckSecurity(tlast.before, PlainEntry, EmptyRequest, tlast.headers, now).ret

====
